---------------------------- MODULE Spec2Model ----------------------------
(***************************************************************************)
(* Model of the PianoChordsQuiz music-theory engine.                       *)
(*                                                                         *)
(* The repository holds several copies of the engine.  Two are modelled:   *)
(*   - src/server/chords.ts: the catalog of root-position patterns, the    *)
(*     generator and the scale-degree matcher (names as in the source);    *)
(*   - src/client/src/components/GameControls.tsx: the catalog with        *)
(*     explicit inversions, the generator and the positional matcher       *)
(*     (names prefixed GC_);                                               *)
(* and the matcher of src/client/src/lib/chords.ts (prefixed Lib_), the    *)
(* catalog and calculateChordNotes of the earlier engine kept in           *)
(* src/unnamed/part_003 (prefixed P3_), and midiNoteToNoteName of          *)
(* src/client/src/hooks/use-piano.ts.                                      *)
(*                                                                         *)
(* Strings the code parses or formats (note strings such as "Eb4", scale   *)
(* degrees such as "bb7") are sequences of one-character strings, so that  *)
(* the regular-expression steps of the code are computed, not assumed.     *)
(* A JavaScript `undefined` string is the one-element sequence Undefined;  *)
(* an absent numeric field is a has... flag beside the field.              *)
(***************************************************************************)
EXTENDS Integers, Sequences, FiniteSets, TLC

VARIABLES
    pc,             \* "idle" or "returned": a call is made, then its result is consumed
    op,             \* the operation the last call applied ("none" when idle)
    difficulty,     \* the tier argument of a getChordsForDifficulty call ("none" otherwise)
    chords,         \* the list that call returned
    created,        \* the ChordData a createChordDefinition call returned
    rootNum,        \* the root argument of a generator call (0 when absent)
    pattern,        \* the pattern argument of a generator call
    noteStrings,    \* the result of generateNoteStrings
    userNotes,      \* first argument of a checkChordMatch call
    targetNotes,    \* second argument of a checkChordMatch call
    hasTargetChord, \* whether the optional third argument was passed
    targetChord,    \* the third argument (NoChord when absent)
    result,         \* "true", "false", "TypeError" (the call threw) or "none"
    intervalsArg,   \* the intervals argument of a calculateChordNotes call
    calculated,     \* the numbers that call returned
    typeArg,        \* the type a catalog lookup asks for ("none" otherwise)
    inversionArg,   \* the inversion a catalog lookup asks for
    imported,       \* the difficultyLevels a getAllChords call iterates over
    midiArg,        \* the MIDI note number of a note-on message (-1 when absent)
    midiName,       \* the note string midiNoteToNoteName made of it
    absent,         \* index of the catalog pattern left out of a tier call (0: none)
    scaleDegreeArg, \* the scale degree passed to scaleDegreeToSemitones (<<>> when absent)
    semitonesOut,   \* the offset it returned (-1 when absent)
    noteOut,        \* the pitch class semitonesToNote made of it (0 when absent)
    serverCatalog,  \* the chordPatterns array of the server module
    page,               \* the game page that is mounted ("none" before)
    gameChords,         \* the chord list the page's query returned
    currentChordIndex,  \* the page's state of that name (0-based)
    recentChordIndices, \* the page's state of that name
    recentChordTypes,   \* the page's state of that name
    score,              \* the page's state of that name
    timers,             \* the generateNewChord closures waiting for their 1500 ms
    selectedNotes,      \* usePiano's state of that name
    pianoEvent,         \* the last event the piano hook handled
    users,              \* MemStorage.users: the user of id i is users[i]
    userIdCounter,      \* MemStorage.userIdCounter
    gameSessions,       \* MemStorage.gameSessions, in insertion order
    sessionIdCounter,   \* MemStorage.sessionIdCounter
    limitArg,           \* the limit of the last getTopScores call (-1 when absent)
    topScores,          \* what that call returned
    storageCall,        \* the last call the storage served
    submitted           \* history: the scores updateUserHighScore was given, per user id

vars == <<pc, op, difficulty, chords, created, rootNum, pattern, noteStrings,
          userNotes, targetNotes, hasTargetChord, targetChord, result,
          intervalsArg, calculated, typeArg, inversionArg,
          imported, midiArg, midiName, absent,
          scaleDegreeArg, semitonesOut, noteOut, serverCatalog,
          page, gameChords, currentChordIndex, recentChordIndices,
          recentChordTypes, score, timers, selectedNotes, pianoEvent,
          users, userIdCounter, gameSessions, sessionIdCounter,
          limitArg, topScores, storageCall, submitted>>

\* The state of the chord engine's functions and of their callers
engineVars == <<pc, op, difficulty, chords, created, rootNum, pattern, noteStrings,
                userNotes, targetNotes, hasTargetChord, targetChord, result,
                intervalsArg, calculated, typeArg, inversionArg,
                imported, midiArg, midiName, absent,
                scaleDegreeArg, semitonesOut, noteOut, serverCatalog>>

\* The state of a game page
pageVars == <<page, gameChords, currentChordIndex, recentChordIndices,
              recentChordTypes, score, timers>>

\* The state of the piano hook
pianoVars == <<selectedNotes, pianoEvent>>

\* The state of the server's MemStorage
storageVars == <<users, userIdCounter, gameSessions, sessionIdCounter,
                 limitArg, topScores, storageCall, submitted>>

-----------------------------------------------------------------------------
(* Characters and strings *)

Digits == {"0", "1", "2", "3", "4", "5", "6", "7", "8", "9"}

DigitChars == <<"0", "1", "2", "3", "4", "5", "6", "7", "8", "9">>

DigitValue(c) == CHOOSE v \in 0..9 : DigitChars[v + 1] = c

\* JavaScript's string `undefined` value, and its rendering in a template string
Undefined == <<"undefined">>

UndefinedText == <<"u", "n", "d", "e", "f", "i", "n", "e", "d">>

\* str.replace(/[0-9]/g, "")
StripDigits(s) == SelectSeq(s, LAMBDA c : c \notin Digits)

\* str.match(/[0-9]+/)?.[0]: the first maximal run of digits, <<>> when there is none
FirstDigitRun(s) ==
    LET starts == {i \in 1..Len(s) : s[i] \in Digits}
    IN  IF starts = {} THEN <<>>
        ELSE LET a == CHOOSE i \in starts : \A j \in starts : i <= j
                 b == CHOOSE j \in a..Len(s) :
                        /\ \A k \in a..j : s[k] \in Digits
                        /\ (j = Len(s) \/ s[j + 1] \notin Digits)
             IN  SubSeq(s, a, b)

\* parseInt(digits, 10) of a non-empty run of digits
RECURSIVE ParseInt(_)
ParseInt(ds) ==
    IF Len(ds) = 0 THEN 0
    ELSE 10 * ParseInt(SubSeq(ds, 1, Len(ds) - 1)) + DigitValue(ds[Len(ds)])

\* `${n}` for a non-negative integer
RECURSIVE NumberText(_)
NumberText(n) ==
    IF n < 10 THEN <<DigitChars[n + 1]>>
    ELSE NumberText(n \div 10) \o <<DigitChars[(n % 10) + 1]>>

\* `${n}` for any integer
IntegerText(n) == IF n < 0 THEN <<"-">> \o NumberText(-n) ELSE NumberText(n)

\* JavaScript's remainder: the sign of the dividend is kept
JsRem(a, b) == IF a >= 0 THEN a % b ELSE -((-a) % b)

Range(s) == {s[i] : i \in DOMAIN s}

SetMin(S) == CHOOSE x \in S : \A y \in S : x <= y

\* array.sort((a, b) => a - b) on numbers
RECURSIVE SortNumbers(_)
SortNumbers(s) ==
    IF Len(s) = 0 THEN <<>>
    ELSE LET m == SetMin(Range(s))
             i == CHOOSE k \in DOMAIN s : s[k] = m
         IN  <<m>> \o SortNumbers(SubSeq(s, 1, i - 1) \o SubSeq(s, i + 1, Len(s)))

RECURSIVE Concat(_)
Concat(ss) == IF Len(ss) = 0 THEN <<>> ELSE Head(ss) \o Concat(Tail(ss))

-----------------------------------------------------------------------------
(* src/server/chords.ts: tables *)

noteToNumber ==
    (<<"C">> :> 1) @@ (<<"C", "#">> :> 2) @@ (<<"D", "b">> :> 2) @@
    (<<"D">> :> 3) @@ (<<"D", "#">> :> 4) @@ (<<"E", "b">> :> 4) @@
    (<<"E">> :> 5) @@ (<<"F">> :> 6) @@ (<<"F", "#">> :> 7) @@
    (<<"G", "b">> :> 7) @@ (<<"G">> :> 8) @@ (<<"G", "#">> :> 9) @@
    (<<"A", "b">> :> 9) @@ (<<"A">> :> 10) @@ (<<"A", "#">> :> 11) @@
    (<<"B", "b">> :> 11) @@ (<<"B">> :> 12)

numberToNote ==
    (1 :> <<"C">>) @@ (2 :> <<"C", "#">>) @@ (3 :> <<"D">>) @@
    (4 :> <<"E", "b">>) @@ (5 :> <<"E">>) @@ (6 :> <<"F">>) @@
    (7 :> <<"F", "#">>) @@ (8 :> <<"G">>) @@ (9 :> <<"A", "b">>) @@
    (10 :> <<"A">>) @@ (11 :> <<"B", "b">>) @@ (12 :> <<"B">>)

\* An object literal { i1: d1, i2: d2, ... } keyed by interval
ScaleDegreeMap(intervals, degrees) ==
    [iv \in Range(intervals) |->
        degrees[CHOOSE i \in DOMAIN intervals :
                    /\ intervals[i] = iv
                    /\ \A j \in DOMAIN intervals : intervals[j] = iv => j <= i]]

\* A pattern of the server catalog: the literal has no `inversion` property
RootPattern(type, display, intervals, degrees) ==
    [type |-> type, display |-> display, intervals |-> intervals,
     scaleDegreeMap |-> ScaleDegreeMap(intervals, degrees),
     hasInversion |-> FALSE, inversion |-> 0]

chordPatterns == <<
    RootPattern("major", <<>>, <<0, 4, 7>>, <<<<"1">>, <<"3">>, <<"5">>>>),
    RootPattern("minor", <<"m">>, <<0, 3, 7>>, <<<<"1">>, <<"b", "3">>, <<"5">>>>),
    RootPattern("augmented", <<"a", "u", "g">>, <<0, 4, 8>>, <<<<"1">>, <<"3">>, <<"#", "5">>>>),
    RootPattern("diminished", <<"d", "i", "m">>, <<0, 3, 6>>, <<<<"1">>, <<"b", "3">>, <<"b", "5">>>>),
    RootPattern("sus2", <<"s", "u", "s", "2">>, <<0, 2, 7>>, <<<<"1">>, <<"2">>, <<"5">>>>),
    RootPattern("sus4", <<"s", "u", "s", "4">>, <<0, 5, 7>>, <<<<"1">>, <<"4">>, <<"5">>>>),
    RootPattern("dominant7", <<"7">>, <<0, 4, 7, 10>>,
                <<<<"1">>, <<"3">>, <<"5">>, <<"b", "7">>>>),
    RootPattern("major7", <<"m", "a", "j", "7">>, <<0, 4, 7, 11>>,
                <<<<"1">>, <<"3">>, <<"5">>, <<"7">>>>),
    RootPattern("minor7", <<"m", "7">>, <<0, 3, 7, 10>>,
                <<<<"1">>, <<"b", "3">>, <<"5">>, <<"b", "7">>>>),
    RootPattern("diminished7", <<"d", "i", "m", "7">>, <<0, 3, 6, 9>>,
                <<<<"1">>, <<"b", "3">>, <<"b", "5">>, <<"b", "b", "7">>>>),
    RootPattern("halfdiminished7", <<"m", "7", "b", "5">>, <<0, 3, 6, 10>>,
                <<<<"1">>, <<"b", "3">>, <<"b", "5">>, <<"b", "7">>>>),
    RootPattern("minorMajor7", <<"m", "M", "a", "j", "7">>, <<0, 3, 7, 11>>,
                <<<<"1">>, <<"b", "3">>, <<"5">>, <<"7">>>>),
    RootPattern("diminishedMajor7", <<"d", "i", "m", "M", "a", "j", "7">>, <<0, 3, 6, 11>>,
                <<<<"1">>, <<"b", "3">>, <<"b", "5">>, <<"7">>>>),
    RootPattern("augmentedMinor7", <<"a", "u", "g", "7">>, <<0, 4, 8, 10>>,
                <<<<"1">>, <<"3">>, <<"#", "5">>, <<"b", "7">>>>),
    RootPattern("augmentedMajor7", <<"a", "u", "g", "M", "a", "j", "7">>, <<0, 4, 8, 11>>,
                <<<<"1">>, <<"3">>, <<"#", "5">>, <<"7">>>>) >>

allRoots == <<1, 2, 3, 4, 5, 6, 7, 8, 9, 10, 11, 12>>

difficultyLevels ==
    <<"level1", "level2", "level3", "level4", "level5",
      "level6", "level7", "level8", "level9">>

\* The declaration of src/shared/schema.ts, the file "@shared/schema" names
Schema_difficultyLevels ==
    <<"level1", "level2", "level3", "level4", "level5">>

-----------------------------------------------------------------------------
(* src/server/chords.ts: conversions *)

calculateChordNotes(root, intervals) ==
    [i \in DOMAIN intervals |->
        LET note == JsRem(root + intervals[i], 12)
        IN  IF note = 0 THEN 12 ELSE note]

noteToNumeric(noteStr) ==
    LET noteName == StripDigits(noteStr)
    IN  IF noteName \in DOMAIN noteToNumber THEN noteToNumber[noteName] ELSE 0

numericToNote(noteNum, octave) ==
    (IF noteNum \in DOMAIN numberToNote THEN numberToNote[noteNum] ELSE UndefinedText)
        \o NumberText(octave)

getRootName(root) ==
    IF root \in DOMAIN numberToNote THEN numberToNote[root] ELSE <<>>

\* The switch on a number; `undefined` (hasInversion = FALSE) takes the default branch
getInversionDisplay(hasInversion, inversion) ==
    IF ~hasInversion THEN UndefinedText \o <<"t", "h", " ", "i", "n", "v">>
    ELSE CASE inversion = 0 -> <<>>
           [] inversion = 1 -> <<"1", "s", "t", " ", "i", "n", "v">>
           [] inversion = 2 -> <<"2", "n", "d", " ", "i", "n", "v">>
           [] inversion = 3 -> <<"3", "r", "d", " ", "i", "n", "v">>
           [] inversion = 4 -> <<"4", "t", "h", " ", "i", "n", "v">>
           [] OTHER -> NumberText(inversion) \o <<"t", "h", " ", "i", "n", "v">>

\* pattern.inversion === k: never true of an absent property
InversionIs(p, k) == p.hasInversion /\ p.inversion = k

generateChordName(root, p) ==
    IF InversionIs(p, 0) THEN getRootName(root) \o p.display
    ELSE getRootName(root) \o p.display \o <<" ", " ", " ", " ">>
            \o getInversionDisplay(p.hasInversion, p.inversion)

baseOctave == 4

generateNoteStrings(root, p) ==
    LET noteNumbers == calculateChordNotes(root, p.intervals)
        n == Len(noteNumbers)
        is7thChord == n > 3
        \* currNote > prevNote ? baseOctave : baseOctave + 1
        Stepped(i) == IF noteNumbers[i] > noteNumbers[i - 1]
                      THEN baseOctave ELSE baseOctave + 1
    IN  IF InversionIs(p, 0) THEN
            [i \in 1..n |->
                IF i = 1 THEN numericToNote(noteNumbers[1], baseOctave)
                ELSE numericToNote(noteNumbers[i], Stepped(i))]
        ELSE IF InversionIs(p, 1) THEN
            [i \in 1..n |->
                IF i = 1 THEN numericToNote(noteNumbers[1], baseOctave)
                ELSE IF i < n THEN numericToNote(noteNumbers[i], Stepped(i))
                ELSE numericToNote(noteNumbers[n], baseOctave + 1)]
        ELSE IF InversionIs(p, 2) \/ (InversionIs(p, 3) /\ is7thChord) THEN
            [i \in 1..n |->
                IF i = 1 THEN numericToNote(noteNumbers[1], baseOctave)
                ELSE numericToNote(noteNumbers[i], baseOctave + 1)]
        ELSE <<>>

\* createChordDefinition with the rotation forgotten: the scale degrees stay in
\* interval order whatever the inversion
createChordDefinitionUnrotated(root, p, id, tier) ==
    LET notes == generateNoteStrings(root, p)
    IN  [id |-> id,
         name |-> generateChordName(root, p),
         notes |-> notes,
         noteNumbers |-> [i \in DOMAIN notes |-> noteToNumeric(notes[i])],
         difficulty |-> tier,
         rootNote |-> root,
         scaleDegrees |-> [i \in DOMAIN p.intervals |-> p.scaleDegreeMap[p.intervals[i]]],
         hasInversion |-> p.hasInversion,
         inversion |-> p.inversion]

\* A Record<number, string> with keys 0..n-1 is the sequence of its values:
\* position i of the record is element i + 1.
createChordDefinition(root, p, id, tier) ==
    LET notes == generateNoteStrings(root, p)
        baseNotes == calculateChordNotes(root, p.intervals)
        baseScaleDegrees == [i \in DOMAIN baseNotes |-> p.scaleDegreeMap[p.intervals[i]]]
        chordSize == Len(baseNotes)
        \* (i + pattern.inversion) % chordSize is NaN when the inversion is absent,
        \* and baseScaleDegrees[NaN] is undefined
        scaleDegrees ==
            IF InversionIs(p, 0) THEN baseScaleDegrees
            ELSE [i \in 1..chordSize |->
                    IF p.hasInversion
                    THEN baseScaleDegrees[((i - 1 + p.inversion) % chordSize) + 1]
                    ELSE Undefined]
    IN  [id |-> id,
         name |-> generateChordName(root, p),
         notes |-> notes,
         noteNumbers |-> [i \in DOMAIN notes |-> noteToNumeric(notes[i])],
         difficulty |-> tier,
         rootNote |-> root,
         scaleDegrees |-> scaleDegrees,
         hasInversion |-> p.hasInversion,
         inversion |-> p.inversion]

-----------------------------------------------------------------------------
(* src/server/chords.ts: the tiers *)

\* chordPatterns.find((p) => p.type === type && p.inversion === inv), as the
\* list of what was found (empty when find returns undefined)
\* find by type alone, keeping the last pattern of the type
FindPatternOfType(catalog, type, inv) ==
    LET hits == {i \in DOMAIN catalog : catalog[i].type = type}
    IN  IF hits = {} THEN <<>>
        ELSE <<catalog[CHOOSE i \in hits : \A j \in hits : j <= i]>>

FindPattern(catalog, type, inv) ==
    LET hits == {i \in DOMAIN catalog :
                    catalog[i].type = type /\ InversionIs(catalog[i], inv)}
    IN  IF hits = {} THEN <<>> ELSE <<catalog[SetMin(hits)]>>

\* The push without its guard: a pattern that was not found is pushed as well
PushedUnguarded(catalog, root, type, inv) ==
    LET found == FindPattern(catalog, type, inv)
    IN  <<[root |-> root,
           pattern |-> IF found = <<>> THEN RootPattern("none", <<>>, <<>>, <<>>)
                       ELSE found[1]]>>

\* if (pattern) chords.push(createChordDefinition(rootNum, pattern, id++, difficulty))
Pushed(catalog, root, type, inv) ==
    LET found == FindPattern(catalog, type, inv)
    IN  IF found = <<>> THEN <<>> ELSE <<[root |-> root, pattern |-> found[1]]>>

PushedAll(catalog, root, types, inv) ==
    Concat([j \in DOMAIN types |-> Pushed(catalog, root, types[j], inv)])

triadTypes == {"major", "minor", "diminished", "augmented", "sus2", "sus4"}

\* The (root, pattern) pairs a tier pushes, in the order it pushes them
TierEntries(catalog, tier) ==
    LET Each(roots, types, inv) ==
            Concat([i \in DOMAIN roots |-> PushedAll(catalog, roots[i], types, inv)])
        MajorOrMinor(root) == IF root \in {1, 8, 6, 3} THEN "major" ELSE "minor"
        Inverted(inv) ==
            LET roots == <<1, 8, 6, 3, 10, 5>>
            IN  Concat([i \in DOMAIN roots |->
                    Pushed(catalog, roots[i], MajorOrMinor(roots[i]), inv)])
        Sevenths(types) ==
            LET roots == <<1, 6, 8, 10, 3, 5>>
            IN  Concat([i \in DOMAIN roots |->
                    Concat([k \in 1..4 |-> PushedAll(catalog, roots[i], types, k - 1)])])
    IN  CASE tier = "level1" ->
                Each(<<1, 6, 8>>, <<"major">>, 0) \o Each(<<10, 3, 5>>, <<"minor">>, 0)
          [] tier = "level2" -> Each(allRoots, <<"major", "minor">>, 0)
          [] tier = "level3" ->
                Each(<<1, 3, 5, 6, 8, 10, 12>>,
                     <<"augmented", "diminished", "sus2", "sus4">>, 0)
          [] tier = "level4" ->
                Each(SelectSeq(allRoots, LAMBDA r : r \notin {1, 3, 5, 6, 8, 10}),
                     <<"augmented", "diminished">>, 0)
                \o Each(<<1, 3>>, <<"sus2", "sus4">>, 0)
          [] tier = "level5" -> Inverted(1)
          [] tier = "level6" -> Inverted(2)
          [] tier = "level7" ->
                LET triadPatterns == SelectSeq(catalog, LAMBDA p : p.type \in triadTypes)
                IN  Concat([i \in DOMAIN allRoots |->
                        [j \in DOMAIN triadPatterns |->
                            [root |-> allRoots[i], pattern |-> triadPatterns[j]]]])
          [] tier = "level8" ->
                Sevenths(<<"dominant7", "major7", "minor7", "minorMajor7">>)
          [] tier = "level9" ->
                Sevenths(<<"diminished7", "halfdiminished7", "diminishedMajor7",
                           "augmentedMinor7", "augmentedMajor7">>)
          [] OTHER -> <<>>

\* The function reads the module's chordPatterns array: catalog is its value
getChordsForDifficultyOver(catalog, tier) ==
    LET pushed == TierEntries(catalog, tier)
    IN  [i \in DOMAIN pushed |->
            createChordDefinition(pushed[i].root, pushed[i].pattern, i, tier)]

getChordsForDifficulty(tier) == getChordsForDifficultyOver(chordPatterns, tier)

\* levels is the difficultyLevels the module imports from "@shared/schema"
getAllChords(levels) ==
    Concat([i \in DOMAIN levels |-> getChordsForDifficulty(levels[i])])

-----------------------------------------------------------------------------
(* src/server/chords.ts: the matcher *)

Count(s, c) == Cardinality({i \in DOMAIN s : s[i] = c})

\* Normalisation by repeated +12 / -12 into lo..lo+11
Normalise(x, lo) == ((((x - lo) % 12) + 12) % 12) + lo

\* scaleDegreeToSemitones with the sharps forgotten: "#5" read as "5"
scaleDegreeToSemitonesNoSharps(scaleDegree) ==
    LET degree == SelectSeq(scaleDegree, LAMBDA c : c \notin {"b", "#"})
        flatCount == Count(scaleDegree, "b")
        semitones == CASE degree = <<"1">> -> 0
                       [] degree = <<"2">> -> 2
                       [] degree = <<"3">> -> 4
                       [] degree = <<"4">> -> 5
                       [] degree = <<"5">> -> 7
                       [] degree = <<"6">> -> 9
                       [] degree = <<"7">> -> 11
                       [] OTHER -> 0
    IN  Normalise(semitones - flatCount, 0)

\* scaleDegree.replace(...) on `undefined` raises a TypeError
scaleDegreeToSemitonesThrows(scaleDegree) == scaleDegree = Undefined

scaleDegreeToSemitones(scaleDegree) ==
    LET degree == SelectSeq(scaleDegree, LAMBDA c : c \notin {"b", "#"})
        flatCount == Count(scaleDegree, "b")
        sharpCount == Count(scaleDegree, "#")
        semitones == CASE degree = <<"1">> -> 0
                       [] degree = <<"2">> -> 2
                       [] degree = <<"3">> -> 4
                       [] degree = <<"4">> -> 5
                       [] degree = <<"5">> -> 7
                       [] degree = <<"6">> -> 9
                       [] degree = <<"7">> -> 11
                       [] OTHER -> 0
    IN  Normalise(semitones - flatCount + sharpCount, 0)

\* semitonesToNote as a plain remainder: 0 where the code gives 12
semitonesToNoteByRemainder(semitones, rootNote) == (rootNote + semitones) % 12

semitonesToNote(semitones, rootNote) == Normalise(rootNote + semitones, 1)

\* { note, octave } of a note string: the octave is the first run of digits, 4 by default
NoteWithOctave(noteStr) ==
    LET digits == FirstDigitRun(noteStr)
    IN  [note |-> noteToNumeric(StripDigits(noteStr)),
         octave |-> IF digits = <<>> THEN 4 ELSE ParseInt(digits)]

Lower(a, b) == IF a.octave # b.octave THEN a.octave < b.octave ELSE a.note <= b.note

\* sort((a, b) => a.octave !== b.octave ? a.octave - b.octave : a.note - b.note)
RECURSIVE SortByPitch(_)
SortByPitch(s) ==
    IF Len(s) = 0 THEN <<>>
    ELSE LET i == CHOOSE k \in DOMAIN s : \A j \in DOMAIN s : Lower(s[k], s[j])
         IN  <<s[i]>> \o SortByPitch(SubSeq(s, 1, i - 1) \o SubSeq(s, i + 1, Len(s)))

PitchClasses(notes) == [i \in DOMAIN notes |-> noteToNumeric(notes[i])]

\* The branch taken without targetChord (lines 1045-1063)
FallbackMatch(userNotes_, targetNotes_) ==
    LET userPitchClasses == SortNumbers(PitchClasses(userNotes_))
        targetPitchClasses == SortNumbers(PitchClasses(targetNotes_))
    IN  IF Len(userPitchClasses) # Len(targetPitchClasses) THEN "false"
        ELSE IF \E i \in DOMAIN userPitchClasses :
                    userPitchClasses[i] # targetPitchClasses[i] THEN "false"
        ELSE "true"

\* The scale-degree branch (lines 1065-1145); targetNotes is not read on it
DegreeMatch(userNotes_, tc) ==
    LET sorted == SortByPitch([i \in DOMAIN userNotes_ |-> NoteWithOctave(userNotes_[i])])
        userPitchClasses == [i \in DOMAIN sorted |-> sorted[i].note]
        expectedNotes ==
            [i \in DOMAIN tc.scaleDegrees |->
                semitonesToNote(scaleDegreeToSemitones(tc.scaleDegrees[i]), tc.rootNote)]
        \* userPitchClasses[0] !== x: true of an empty array as well
        BassIsNot(x) == Len(userPitchClasses) = 0 \/ userPitchClasses[1] # x
    IN  IF \E i \in DOMAIN tc.scaleDegrees :
                scaleDegreeToSemitonesThrows(tc.scaleDegrees[i]) THEN "TypeError"
        ELSE IF \E i \in DOMAIN expectedNotes :
                    expectedNotes[i] \notin Range(userPitchClasses) THEN "false"
        ELSE IF Len(userPitchClasses) # Len(expectedNotes) THEN "false"
        ELSE IF tc.hasInversion /\ tc.inversion > 0 THEN
            \* the degree stored under the key equal to the inversion number
            IF tc.inversion + 1 \in DOMAIN tc.scaleDegrees
               /\ tc.scaleDegrees[tc.inversion + 1] # <<>>
               /\ BassIsNot(semitonesToNote(
                        scaleDegreeToSemitones(tc.scaleDegrees[tc.inversion + 1]),
                        tc.rootNote))
            THEN "false" ELSE "true"
        ELSE IF (\E i \in DOMAIN tc.scaleDegrees : tc.scaleDegrees[i] = <<"1">>)
                /\ BassIsNot(tc.rootNote)
            THEN "false" ELSE "true"

\* checkChordMatch with the target chord ignored: the comparison against
\* targetNotes whatever else is passed
checkChordMatchByNotes(userNotes_, targetNotes_, hasTargetChord_, tc) ==
    FallbackMatch(userNotes_, targetNotes_)

\* Every ChordData built by createChordDefinition carries a scaleDegrees object,
\* so `!targetChord || !targetChord.scaleDegrees` is the absence of the argument.
checkChordMatch(userNotes_, targetNotes_, hasTargetChord_, tc) ==
    IF ~hasTargetChord_ THEN FallbackMatch(userNotes_, targetNotes_)
    ELSE DegreeMatch(userNotes_, tc)

-----------------------------------------------------------------------------
(* src/client/src/components/GameControls.tsx: the engine with explicit        *)
(* inversions.  Its tables, calculateChordNotes, noteToNumeric, numericToNote, *)
(* generateNoteStrings and the tier rules have the same text as the server's.  *)

\* A pattern of this catalog: intervals counted from the bass note, the
\* scaleDegreeMap already in bass-to-top order, and an `inversion` property
Pattern(type, display, intervals, inversion, degrees) ==
    [type |-> type, display |-> display, intervals |-> intervals,
     scaleDegreeMap |-> ScaleDegreeMap(intervals, degrees),
     hasInversion |-> TRUE, inversion |-> inversion]

GC_chordPatterns == <<
    Pattern("major", <<>>, <<0, 4, 7>>, 0,
            <<<<"1">>, <<"3">>, <<"5">>>>),
    Pattern("major", <<>>, <<0, 3, 8>>, 1,
            <<<<"3">>, <<"5">>, <<"1">>>>),
    Pattern("major", <<>>, <<0, 5, 9>>, 2,
            <<<<"5">>, <<"1">>, <<"3">>>>),
    Pattern("minor", <<"m">>, <<0, 3, 7>>, 0,
            <<<<"1">>, <<"b", "3">>, <<"5">>>>),
    Pattern("minor", <<"m">>, <<0, 4, 9>>, 1,
            <<<<"b", "3">>, <<"5">>, <<"1">>>>),
    Pattern("minor", <<"m">>, <<0, 5, 8>>, 2,
            <<<<"5">>, <<"1">>, <<"b", "3">>>>),
    Pattern("augmented", <<"a", "u", "g">>, <<0, 4, 8>>, 0,
            <<<<"1">>, <<"3">>, <<"#", "5">>>>),
    Pattern("augmented", <<"a", "u", "g">>, <<0, 4, 8>>, 1,
            <<<<"3">>, <<"#", "5">>, <<"1">>>>),
    Pattern("augmented", <<"a", "u", "g">>, <<0, 4, 8>>, 2,
            <<<<"#", "5">>, <<"1">>, <<"3">>>>),
    Pattern("diminished", <<"d", "i", "m">>, <<0, 3, 6>>, 0,
            <<<<"1">>, <<"b", "3">>, <<"b", "5">>>>),
    Pattern("diminished", <<"d", "i", "m">>, <<0, 3, 9>>, 1,
            <<<<"b", "3">>, <<"b", "5">>, <<"1">>>>),
    Pattern("diminished", <<"d", "i", "m">>, <<0, 6, 9>>, 2,
            <<<<"b", "5">>, <<"1">>, <<"b", "3">>>>),
    Pattern("sus2", <<"s", "u", "s", "2">>, <<0, 2, 7>>, 0,
            <<<<"1">>, <<"2">>, <<"5">>>>),
    Pattern("sus2", <<"s", "u", "s", "2">>, <<0, 5, 10>>, 1,
            <<<<"2">>, <<"5">>, <<"1">>>>),
    Pattern("sus2", <<"s", "u", "s", "2">>, <<0, 5, 7>>, 2,
            <<<<"5">>, <<"1">>, <<"2">>>>),
    Pattern("sus4", <<"s", "u", "s", "4">>, <<0, 5, 7>>, 0,
            <<<<"1">>, <<"4">>, <<"5">>>>),
    Pattern("sus4", <<"s", "u", "s", "4">>, <<0, 2, 7>>, 1,
            <<<<"4">>, <<"5">>, <<"1">>>>),
    Pattern("sus4", <<"s", "u", "s", "4">>, <<0, 5, 10>>, 2,
            <<<<"5">>, <<"1">>, <<"4">>>>),
    Pattern("dominant7", <<"7">>, <<0, 4, 7, 10>>, 0,
            <<<<"1">>, <<"3">>, <<"5">>, <<"b", "7">>>>),
    Pattern("dominant7", <<"7">>, <<0, 3, 6, 8>>, 1,
            <<<<"3">>, <<"5">>, <<"b", "7">>, <<"1">>>>),
    Pattern("dominant7", <<"7">>, <<0, 3, 5, 9>>, 2,
            <<<<"5">>, <<"b", "7">>, <<"1">>, <<"3">>>>),
    Pattern("dominant7", <<"7">>, <<0, 2, 6, 9>>, 3,
            <<<<"b", "7">>, <<"1">>, <<"3">>, <<"5">>>>),
    Pattern("major7", <<"m", "a", "j", "7">>, <<0, 4, 7, 11>>, 0,
            <<<<"1">>, <<"3">>, <<"5">>, <<"7">>>>),
    Pattern("major7", <<"m", "a", "j", "7">>, <<0, 3, 7, 8>>, 1,
            <<<<"3">>, <<"5">>, <<"7">>, <<"1">>>>),
    Pattern("major7", <<"m", "a", "j", "7">>, <<0, 4, 5, 9>>, 2,
            <<<<"5">>, <<"7">>, <<"1">>, <<"3">>>>),
    Pattern("major7", <<"m", "a", "j", "7">>, <<0, 1, 5, 8>>, 3,
            <<<<"7">>, <<"1">>, <<"3">>, <<"5">>>>),
    Pattern("minor7", <<"m", "7">>, <<0, 3, 7, 10>>, 0,
            <<<<"1">>, <<"b", "3">>, <<"5">>, <<"b", "7">>>>),
    Pattern("minor7", <<"m", "7">>, <<0, 4, 7, 9>>, 1,
            <<<<"b", "3">>, <<"5">>, <<"b", "7">>, <<"1">>>>),
    Pattern("minor7", <<"m", "7">>, <<0, 3, 5, 8>>, 2,
            <<<<"5">>, <<"b", "7">>, <<"1">>, <<"b", "3">>>>),
    Pattern("minor7", <<"m", "7">>, <<0, 2, 5, 9>>, 3,
            <<<<"b", "7">>, <<"1">>, <<"b", "3">>, <<"5">>>>),
    Pattern("diminished7", <<"d", "i", "m", "7">>, <<0, 3, 6, 9>>, 0,
            <<<<"1">>, <<"b", "3">>, <<"b", "5">>, <<"b", "b", "7">>>>),
    Pattern("diminished7", <<"d", "i", "m", "7">>, <<0, 3, 6, 9>>, 1,
            <<<<"b", "3">>, <<"b", "5">>, <<"b", "b", "7">>, <<"1">>>>),
    Pattern("diminished7", <<"d", "i", "m", "7">>, <<0, 3, 6, 9>>, 2,
            <<<<"b", "5">>, <<"b", "b", "7">>, <<"1">>, <<"b", "3">>>>),
    Pattern("diminished7", <<"d", "i", "m", "7">>, <<0, 3, 6, 9>>, 3,
            <<<<"b", "b", "7">>, <<"1">>, <<"b", "3">>, <<"b", "5">>>>),
    Pattern("halfdiminished7", <<"m", "7", "b", "5">>, <<0, 3, 6, 10>>, 0,
            <<<<"1">>, <<"b", "3">>, <<"b", "5">>, <<"b", "7">>>>),
    Pattern("halfdiminished7", <<"m", "7", "b", "5">>, <<0, 3, 7, 9>>, 1,
            <<<<"b", "3">>, <<"b", "5">>, <<"b", "7">>, <<"1">>>>),
    Pattern("halfdiminished7", <<"m", "7", "b", "5">>, <<0, 4, 6, 9>>, 2,
            <<<<"b", "5">>, <<"b", "7">>, <<"1">>, <<"b", "3">>>>),
    Pattern("halfdiminished7", <<"m", "7", "b", "5">>, <<0, 2, 5, 8>>, 3,
            <<<<"b", "7">>, <<"1">>, <<"b", "3">>, <<"b", "5">>>>),
    Pattern("minorMajor7", <<"m", "M", "a", "j", "7">>, <<0, 3, 7, 11>>, 0,
            <<<<"1">>, <<"b", "3">>, <<"5">>, <<"7">>>>),
    Pattern("minorMajor7", <<"m", "M", "a", "j", "7">>, <<0, 4, 8, 9>>, 1,
            <<<<"b", "3">>, <<"5">>, <<"7">>, <<"1">>>>),
    Pattern("minorMajor7", <<"m", "M", "a", "j", "7">>, <<0, 4, 5, 8>>, 2,
            <<<<"5">>, <<"7">>, <<"1">>, <<"b", "3">>>>),
    Pattern("minorMajor7", <<"m", "M", "a", "j", "7">>, <<0, 1, 4, 9>>, 3,
            <<<<"7">>, <<"1">>, <<"b", "3">>, <<"5">>>>),
    Pattern("diminishedMajor7", <<"d", "i", "m", "M", "a", "j", "7">>, <<0, 3, 6, 11>>, 0,
            <<<<"1">>, <<"b", "3">>, <<"b", "5">>, <<"7">>>>),
    Pattern("diminishedMajor7", <<"d", "i", "m", "M", "a", "j", "7">>, <<0, 3, 8, 9>>, 1,
            <<<<"b", "3">>, <<"b", "5">>, <<"7">>, <<"1">>>>),
    Pattern("diminishedMajor7", <<"d", "i", "m", "M", "a", "j", "7">>, <<0, 5, 6, 9>>, 2,
            <<<<"b", "5">>, <<"7">>, <<"1">>, <<"b", "3">>>>),
    Pattern("diminishedMajor7", <<"d", "i", "m", "M", "a", "j", "7">>, <<0, 1, 4, 7>>, 3,
            <<<<"7">>, <<"1">>, <<"b", "3">>, <<"b", "5">>>>),
    Pattern("augmentedMinor7", <<"a", "u", "g", "7">>, <<0, 4, 8, 10>>, 0,
            <<<<"1">>, <<"3">>, <<"#", "5">>, <<"b", "7">>>>),
    Pattern("augmentedMinor7", <<"a", "u", "g", "7">>, <<0, 4, 6, 8>>, 1,
            <<<<"3">>, <<"#", "5">>, <<"b", "7">>, <<"1">>>>),
    Pattern("augmentedMinor7", <<"a", "u", "g", "7">>, <<0, 2, 4, 8>>, 2,
            <<<<"#", "5">>, <<"b", "7">>, <<"1">>, <<"3">>>>),
    Pattern("augmentedMinor7", <<"a", "u", "g", "7">>, <<0, 2, 6, 10>>, 3,
            <<<<"b", "7">>, <<"1">>, <<"3">>, <<"#", "5">>>>),
    Pattern("augmentedMajor7", <<"a", "u", "g", "M", "a", "j", "7">>, <<0, 4, 8, 11>>, 0,
            <<<<"1">>, <<"3">>, <<"#", "5">>, <<"7">>>>),
    Pattern("augmentedMajor7", <<"a", "u", "g", "M", "a", "j", "7">>, <<0, 4, 7, 8>>, 1,
            <<<<"3">>, <<"#", "5">>, <<"7">>, <<"1">>>>),
    Pattern("augmentedMajor7", <<"a", "u", "g", "M", "a", "j", "7">>, <<0, 3, 4, 8>>, 2,
            <<<<"#", "5">>, <<"7">>, <<"1">>, <<"3">>>>),
    Pattern("augmentedMajor7", <<"a", "u", "g", "M", "a", "j", "7">>, <<0, 1, 5, 9>>, 3,
            <<<<"7">>, <<"1">>, <<"3">>, <<"#", "5">>>>) >>

GC_generateNoteStrings(root, p) == generateNoteStrings(root, p)

GC_createChordDefinition(root, p, id, tier) ==
    LET notes == GC_generateNoteStrings(root, p)
        actualNotes == calculateChordNotes(root, p.intervals)
    IN  [id |-> id,
         name |-> generateChordName(root, p),
         notes |-> notes,
         noteNumbers |-> [i \in DOMAIN notes |-> noteToNumeric(notes[i])],
         difficulty |-> tier,
         rootNote |-> root,
         scaleDegrees |-> [i \in DOMAIN actualNotes |-> p.scaleDegreeMap[p.intervals[i]]],
         hasInversion |-> p.hasInversion,
         inversion |-> p.inversion]

GC_getChordsForDifficulty(tier) ==
    LET pushed == TierEntries(GC_chordPatterns, tier)
    IN  [i \in DOMAIN pushed |->
            GC_createChordDefinition(pushed[i].root, pushed[i].pattern, i, tier)]

\* getChordsForDifficulty over a catalog that may lack patterns
GC_getChordsForDifficultyOver(catalog, tier) ==
    LET pushed == TierEntries(catalog, tier)
    IN  [i \in DOMAIN pushed |->
            GC_createChordDefinition(pushed[i].root, pushed[i].pattern, i, tier)]

GC_getAllChords(levels) ==
    Concat([i \in DOMAIN levels |-> GC_getChordsForDifficulty(levels[i])])

\* The optional targetChord is only read to collect data after the verdict is
\* fixed (lines 1019-1054), so the result is a function of the two note lists.
GC_checkChordMatch(userNotes_, targetNotes_, hasTargetChord_, tc) ==
    LET userNotesWithOctaves ==
            SortByPitch([i \in DOMAIN userNotes_ |-> NoteWithOctave(userNotes_[i])])
        targetNotesWithOctaves ==
            SortByPitch([i \in DOMAIN targetNotes_ |-> NoteWithOctave(targetNotes_[i])])
        userNotesSorted == SortNumbers(PitchClasses(userNotes_))
        targetNotesSorted == SortNumbers(PitchClasses(targetNotes_))
    IN  IF Len(userNotes_) # Len(targetNotes_) THEN "false"
        ELSE IF \E i \in DOMAIN userNotesSorted :
                    userNotesSorted[i] # targetNotesSorted[i] THEN "false"
        \* userNotesWithOctaves[0].note of an empty array
        ELSE IF Len(userNotesWithOctaves) = 0 THEN "TypeError"
        ELSE IF userNotesWithOctaves[1].note # targetNotesWithOctaves[1].note THEN "false"
        ELSE "true"

-----------------------------------------------------------------------------
(* src/client/src/lib/chords.ts: the matcher the game pages call *)

Lib_checkChordMatch(selectedNotes_, chordNotes) ==
    LET sortedSelected == SortNumbers(PitchClasses(selectedNotes_))
        chordNoteNumbers == SortNumbers(PitchClasses(chordNotes))
    IN  IF Len(selectedNotes_) # Len(chordNotes) THEN "false"
        ELSE IF \A i \in DOMAIN sortedSelected : sortedSelected[i] = chordNoteNumbers[i]
             THEN "true" ELSE "false"

-----------------------------------------------------------------------------
(* src/client/src/hooks/use-piano.ts: MIDI note numbers to note strings *)

Midi_noteNames ==
    <<<<"C">>, <<"C", "#">>, <<"D">>, <<"D", "#">>, <<"E">>, <<"F">>,
      <<"F", "#">>, <<"G">>, <<"G", "#">>, <<"A">>, <<"A", "#">>, <<"B">>>>

midiNoteToNoteName(midiNote) ==
    LET octave == (midiNote \div 12) - 1
        name == Midi_noteNames[(midiNote % 12) + 1]
    IN  name \o IntegerText(octave)

-----------------------------------------------------------------------------
(* The earlier engine kept in src/unnamed/part_003.  Its calculateChordNotes *)
(* takes the pattern and brings each sum into 1..12 by repeated steps of 12. *)

\* A pattern of part_003: type, display, intervals and inversion, no scale degrees
P3_Pattern(type, display, intervals, inversion) ==
    [type |-> type, display |-> display, intervals |-> intervals,
     scaleDegreeMap |-> <<>>, hasInversion |-> TRUE, inversion |-> inversion]

P3_chordPatterns == <<
    P3_Pattern("major", <<>>, <<0, 4, 7>>, 0),
    P3_Pattern("minor", <<"m">>, <<0, 3, 7>>, 0),
    P3_Pattern("augmented", <<"a", "u", "g">>, <<0, 4, 8>>, 0),
    P3_Pattern("diminished", <<"d", "i", "m">>, <<0, 3, 6>>, 0),
    P3_Pattern("sus2", <<"s", "u", "s", "2">>, <<0, 2, 7>>, 0),
    P3_Pattern("sus4", <<"s", "u", "s", "4">>, <<0, 5, 7>>, 0),
    P3_Pattern("major", <<>>, <<-8, 0, 3>>, 1),
    P3_Pattern("minor", <<"m">>, <<-9, 0, 4>>, 1),
    P3_Pattern("augmented", <<"a", "u", "g">>, <<-8, 0, 4>>, 1),
    P3_Pattern("diminished", <<"d", "i", "m">>, <<-9, 0, 3>>, 1),
    P3_Pattern("major", <<>>, <<-5, -1, 0>>, 2),
    P3_Pattern("minor", <<"m">>, <<-5, -2, 0>>, 2),
    P3_Pattern("augmented", <<"a", "u", "g">>, <<-4, 0, 4>>, 2),
    P3_Pattern("diminished", <<"d", "i", "m">>, <<-6, -3, 0>>, 2),
    P3_Pattern("dominant7", <<"7">>, <<0, 4, 7, 10>>, 0),
    P3_Pattern("major7", <<"m", "a", "j", "7">>, <<0, 4, 7, 11>>, 0),
    P3_Pattern("minor7", <<"m", "7">>, <<0, 3, 7, 10>>, 0),
    P3_Pattern("minorMajor7", <<"m", "M", "a", "j", "7">>, <<0, 3, 7, 11>>, 0),
    P3_Pattern("diminished7", <<"d", "i", "m", "7">>, <<0, 3, 6, 9>>, 0),
    P3_Pattern("halfdiminished7", <<"m", "7", "b", "5">>, <<0, 3, 6, 10>>, 0),
    P3_Pattern("diminishedMajor7", <<"d", "i", "m", "M", "a", "j", "7">>, <<0, 3, 6, 11>>, 0),
    P3_Pattern("augmentedMinor7", <<"a", "u", "g", "7">>, <<0, 4, 8, 10>>, 0),
    P3_Pattern("augmentedMajor7", <<"a", "u", "g", "M", "a", "j", "7">>, <<0, 4, 8, 11>>, 0),
    P3_Pattern("dominant7", <<"7">>, <<-2, 0, 3, 6>>, 1),
    P3_Pattern("major7", <<"m", "a", "j", "7">>, <<-1, 0, 3, 7>>, 1),
    P3_Pattern("minor7", <<"m", "7">>, <<-2, 0, 4, 7>>, 1),
    P3_Pattern("minorMajor7", <<"m", "M", "a", "j", "7">>, <<-1, 0, 4, 8>>, 1),
    P3_Pattern("diminished7", <<"d", "i", "m", "7">>, <<-3, 0, 3, 6>>, 1),
    P3_Pattern("halfdiminished7", <<"m", "7", "b", "5">>, <<-2, 0, 3, 7>>, 1),
    P3_Pattern("diminishedMajor7", <<"d", "i", "m", "M", "a", "j", "7">>, <<-1, 0, 3, 8>>, 1),
    P3_Pattern("augmentedMinor7", <<"a", "u", "g", "7">>, <<-2, 0, 4, 6>>, 1),
    P3_Pattern("augmentedMajor7", <<"a", "u", "g", "M", "a", "j", "7">>, <<-1, 0, 4, 7>>, 1),
    P3_Pattern("dominant7", <<"7">>, <<-4, -1, 0, 3>>, 2),
    P3_Pattern("major7", <<"m", "a", "j", "7">>, <<-5, -1, 0, 4>>, 2),
    P3_Pattern("minor7", <<"m", "7">>, <<-5, -1, 0, 3>>, 2),
    P3_Pattern("minorMajor7", <<"m", "M", "a", "j", "7">>, <<-4, 0, 1, 4>>, 2),
    P3_Pattern("diminished7", <<"d", "i", "m", "7">>, <<-3, 0, 3, 6>>, 2),
    P3_Pattern("halfdiminished7", <<"m", "7", "b", "5">>, <<-4, 0, 2, 7>>, 2),
    P3_Pattern("diminishedMajor7", <<"d", "i", "m", "M", "a", "j", "7">>, <<-3, 0, 2, 5>>, 2),
    P3_Pattern("augmentedMinor7", <<"a", "u", "g", "7">>, <<-4, 0, 2, 6>>, 2),
    P3_Pattern("augmentedMajor7", <<"a", "u", "g", "M", "a", "j", "7">>, <<-4, 0, 1, 5>>, 2),
    P3_Pattern("dominant7", <<"7">>, <<-7, -4, -1, 0>>, 3),
    P3_Pattern("major7", <<"m", "a", "j", "7">>, <<-8, -5, -1, 0>>, 3),
    P3_Pattern("minor7", <<"m", "7">>, <<-7, -4, -1, 0>>, 3),
    P3_Pattern("minorMajor7", <<"m", "M", "a", "j", "7">>, <<-8, -4, -1, 0>>, 3),
    P3_Pattern("diminished7", <<"d", "i", "m", "7">>, <<-3, 0, 3, 6>>, 3),
    P3_Pattern("halfdiminished7", <<"m", "7", "b", "5">>, <<-7, -3, 0, 3>>, 3),
    P3_Pattern("diminishedMajor7", <<"d", "i", "m", "M", "a", "j", "7">>, <<-8, -4, -1, 0>>, 3),
    P3_Pattern("augmentedMinor7", <<"a", "u", "g", "7">>, <<-6, -2, 0, 4>>, 3),
    P3_Pattern("augmentedMajor7", <<"a", "u", "g", "M", "a", "j", "7">>, <<-7, -3, 0, 4>>, 3)>>

RECURSIVE P3_Wrap(_)
P3_Wrap(note) ==
    IF note > 12 THEN P3_Wrap(note - 12)
    ELSE IF note < 1 THEN P3_Wrap(note + 12)
    ELSE note

P3_calculateChordNotes(root, p) ==
    [i \in DOMAIN p.intervals |-> P3_Wrap(root + p.intervals[i])]

-----------------------------------------------------------------------------
(* The calls.  Each action is one call of an exported function on inputs   *)
(* drawn from the sets below; Return consumes the result.                  *)

MaxUserNotes == 3

\* Note strings a player can submit; "H4" names no note
UserPool ==
    {<<"C", "4">>, <<"E", "4">>, <<"G", "4">>, <<"G", "#", "4">>,
     <<"C", "5">>, <<"E", "5">>, <<"H", "4">>}

Lists(pool, n) == UNION {[1..k -> pool] : k \in 0..n}

UserLists == Lists(UserPool, MaxUserNotes)

\* Target note lists sent to the two-argument matchers: the C-major voicings
\* of the game, a chord of another quality, and lists that are short, empty,
\* unordered, doubled or hold a string ("X4") that names no note
TargetLists ==
    {<<>>,
     <<<<"C", "4">>>>,
     <<<<"C", "4">>, <<"E", "4">>>>,
     <<<<"C", "4">>, <<"E", "4">>, <<"G", "4">>>>,
     <<<<"E", "4">>, <<"G", "4">>, <<"C", "5">>>>,
     <<<<"G", "4">>, <<"C", "5">>, <<"E", "5">>>>,
     <<<<"G", "4">>, <<"E", "4">>, <<"C", "4">>>>,
     <<<<"C", "4">>, <<"E", "4">>, <<"G", "#", "4">>>>,
     <<<<"C", "4">>, <<"C", "5">>, <<"E", "4">>>>,
     <<<<"X", "4">>, <<"E", "4">>, <<"G", "4">>>>}

Roots == 1..12

Tiers == Range(difficultyLevels)

NoPattern == RootPattern("none", <<>>, <<>>, <<>>)

NoChord ==
    [id |-> 0, name |-> <<>>, notes |-> <<>>, noteNumbers |-> <<>>,
     difficulty |-> "none", rootNote |-> 0, scaleDegrees |-> <<>>,
     hasInversion |-> FALSE, inversion |-> 0]

\* pattern with its `inversion` property set to k
WithInversion(p, k) == [p EXCEPT !.hasInversion = TRUE, !.inversion = k]

\* What createChordDefinition is applied to: the patterns of the catalog as
\* they are, and the same patterns carrying each inversion the function reads
BuilderPatterns ==
    Range(chordPatterns)
    \cup {WithInversion(p, k) : p \in Range(chordPatterns), k \in 0..3}

\* Instances of root C of the triads, in root position and inverted, built by
\* createChordDefinition: the targets a player of UserPool can answer
MatchRoots == {1}

BuiltTargets ==
    {createChordDefinition(root, WithInversion(p, k), 1, "level7") :
        root \in MatchRoots,
        p \in {q \in Range(chordPatterns) : q.type \in triadTypes}, k \in 0..2}

Init ==
    /\ pc = "idle"
    /\ op = "none"
    /\ difficulty = "none"
    /\ chords = <<>>
    /\ created = NoChord
    /\ rootNum = 0
    /\ pattern = NoPattern
    /\ noteStrings = <<>>
    /\ userNotes = <<>>
    /\ targetNotes = <<>>
    /\ hasTargetChord = FALSE
    /\ targetChord = NoChord
    /\ result = "none"
    /\ intervalsArg = <<>>
    /\ calculated = <<>>
    /\ typeArg = "none"
    /\ inversionArg = 0
    /\ imported = <<>>
    /\ midiArg = -1
    /\ midiName = <<>>
    /\ absent = 0
    /\ scaleDegreeArg = <<>>
    /\ semitonesOut = -1
    /\ noteOut = 0
    /\ serverCatalog = chordPatterns
    /\ page = "none"
    /\ gameChords = <<>>
    /\ currentChordIndex = 0
    /\ recentChordIndices = <<>>
    /\ recentChordTypes = <<>>
    /\ score = 0
    /\ timers = <<>>
    /\ selectedNotes = <<>>
    /\ pianoEvent = "none"
    /\ users = <<>>
    /\ userIdCounter = 1
    /\ gameSessions = <<>>
    /\ sessionIdCounter = 1
    /\ limitArg = -1
    /\ topScores = <<>>
    /\ storageCall = [name |-> "none", known |-> FALSE]
    /\ submitted = <<>>

GeneratorIdle ==
    /\ created' = NoChord /\ rootNum' = 0 /\ pattern' = NoPattern /\ noteStrings' = <<>>

MatcherIdle ==
    /\ userNotes' = <<>> /\ targetNotes' = <<>> /\ hasTargetChord' = FALSE
    /\ targetChord' = NoChord /\ result' = "none"

\* Intervals passed to calculateChordNotes range over -LowInterval..MaxInterval
LowInterval == 12

MaxInterval == 24

Intervals == (-LowInterval)..MaxInterval

\* A pattern that holds the given intervals and nothing else
IntervalPattern(list) == [NoPattern EXCEPT !.intervals = list]

NumbersIdle ==
    /\ intervalsArg' = <<>> /\ calculated' = <<>>

LookupIdle ==
    /\ typeArg' = "none" /\ inversionArg' = 0

ImportIdle ==
    /\ imported' = <<>>

MidiIdle ==
    /\ midiArg' = -1 /\ midiName' = <<>>

CatalogWhole ==
    /\ absent' = 0

DegreeIdle ==
    /\ scaleDegreeArg' = <<>> /\ semitonesOut' = -1 /\ noteOut' = 0

\* No function writes to the catalog
CatalogKept ==
    /\ UNCHANGED serverCatalog

\* The engine's functions touch neither a page, nor the piano, nor the storage
ClientKept ==
    /\ UNCHANGED <<pageVars, pianoVars, storageVars>>

\* What the calls of the functions above leave as it is
OtherIdle ==
    /\ CatalogWhole /\ DegreeIdle /\ CatalogKept /\ ClientKept

\* No conversion function is being called and no lookup made
ConversionIdle ==
    /\ NumbersIdle /\ LookupIdle /\ ImportIdle /\ MidiIdle

\* The data byte of a MIDI note message is in 0..MaxMidiNote
MaxMidiNote == 127

\* onMIDIMessage: midiNoteToNoteName(note)
CallMidiNoteToNoteName ==
    /\ pc = "idle"
    /\ \E m \in 0..MaxMidiNote :
        /\ midiArg' = m
        /\ midiName' = midiNoteToNoteName(m)
    /\ pc' = "returned" /\ op' = "midiNoteToNoteName"
    /\ difficulty' = "none" /\ chords' = <<>>
    /\ GeneratorIdle /\ MatcherIdle /\ NumbersIdle /\ LookupIdle /\ ImportIdle
    /\ OtherIdle

\* The two declarations of difficultyLevels the sources hold
Declarations == {difficultyLevels, Schema_difficultyLevels}

\* getAllChords() of the server
CallGetAllChords ==
    /\ pc = "idle"
    /\ \E levels \in Declarations :
        /\ imported' = levels
        /\ chords' = getAllChords(levels)
    /\ pc' = "returned" /\ op' = "getAllChords"
    /\ difficulty' = "none"
    /\ GeneratorIdle /\ MatcherIdle /\ NumbersIdle /\ LookupIdle /\ MidiIdle
    /\ OtherIdle

\* getAllChords() of GameControls
GC_CallGetAllChords ==
    /\ pc = "idle"
    /\ \E levels \in Declarations :
        /\ imported' = levels
        /\ chords' = GC_getAllChords(levels)
    /\ pc' = "returned" /\ op' = "GC_getAllChords"
    /\ difficulty' = "none"
    /\ GeneratorIdle /\ MatcherIdle /\ NumbersIdle /\ LookupIdle /\ MidiIdle
    /\ OtherIdle

\* The nine 7th-chord types of the tier rules
seventhTypes ==
    {"dominant7", "major7", "minor7", "minorMajor7", "diminished7",
     "halfdiminished7", "diminishedMajor7", "augmentedMinor7", "augmentedMajor7"}

\* chordPatterns.find((p) => p.type === type && p.inversion === k) of the
\* tier rules; the result is NoPattern when find returns undefined
Lookup(name, catalog) ==
    /\ pc = "idle"
    /\ \E type \in triadTypes \cup seventhTypes, k \in 0..3 :
        /\ typeArg' = type
        /\ inversionArg' = k
        /\ pattern' = LET found == FindPattern(catalog, type, k)
                      IN  IF found = <<>> THEN NoPattern ELSE found[1]
    /\ pc' = "returned" /\ op' = name
    /\ difficulty' = "none" /\ chords' = <<>> /\ created' = NoChord
    /\ rootNum' = 0 /\ noteStrings' = <<>>
    /\ MatcherIdle /\ NumbersIdle /\ ImportIdle /\ MidiIdle
    /\ OtherIdle

CallFind == Lookup("find", chordPatterns)

GC_CallFind == Lookup("GC_find", GC_chordPatterns)

P3_CallFind == Lookup("P3_find", P3_chordPatterns)

CallGetChordsForDifficulty ==
    /\ pc = "idle"
    /\ \E tier \in Tiers :
        /\ difficulty' = tier
        /\ chords' = getChordsForDifficultyOver(serverCatalog, tier)
    /\ pc' = "returned" /\ op' = "getChordsForDifficulty"
    /\ GeneratorIdle /\ MatcherIdle
    /\ ConversionIdle
    /\ OtherIdle

GC_CallGetChordsForDifficulty ==
    /\ pc = "idle"
    /\ \E tier \in Tiers :
        /\ difficulty' = tier
        /\ chords' = GC_getChordsForDifficulty(tier)
    /\ pc' = "returned" /\ op' = "GC_getChordsForDifficulty"
    /\ GeneratorIdle /\ MatcherIdle
    /\ ConversionIdle
    /\ OtherIdle

CallGenerateNoteStrings ==
    /\ pc = "idle"
    /\ \E root \in Roots, p \in Range(chordPatterns) :
        /\ rootNum' = root
        /\ pattern' = p
        /\ noteStrings' = generateNoteStrings(root, p)
    /\ pc' = "returned" /\ op' = "generateNoteStrings"
    /\ difficulty' = "none" /\ chords' = <<>> /\ created' = NoChord
    /\ MatcherIdle
    /\ ConversionIdle
    /\ OtherIdle

GC_CallGenerateNoteStrings ==
    /\ pc = "idle"
    /\ \E root \in Roots, p \in Range(GC_chordPatterns) :
        /\ rootNum' = root
        /\ pattern' = p
        /\ noteStrings' = GC_generateNoteStrings(root, p)
    /\ pc' = "returned" /\ op' = "GC_generateNoteStrings"
    /\ difficulty' = "none" /\ chords' = <<>> /\ created' = NoChord
    /\ MatcherIdle
    /\ ConversionIdle
    /\ OtherIdle

CallCreateChordDefinition ==
    /\ pc = "idle"
    /\ \E root \in Roots, p \in BuilderPatterns, tier \in {"level1", "level7"} :
        /\ rootNum' = root
        /\ pattern' = p
        /\ difficulty' = tier
        /\ created' = createChordDefinition(root, p, 1, tier)
    /\ pc' = "returned" /\ op' = "createChordDefinition"
    /\ chords' = <<>> /\ noteStrings' = <<>>
    /\ MatcherIdle
    /\ ConversionIdle
    /\ OtherIdle

GC_CallCreateChordDefinition ==
    /\ pc = "idle"
    /\ \E root \in Roots, p \in Range(GC_chordPatterns), tier \in {"level1", "level7"} :
        /\ rootNum' = root
        /\ pattern' = p
        /\ difficulty' = tier
        /\ created' = GC_createChordDefinition(root, p, 1, tier)
    /\ pc' = "returned" /\ op' = "GC_createChordDefinition"
    /\ chords' = <<>> /\ noteStrings' = <<>>
    /\ MatcherIdle
    /\ ConversionIdle
    /\ OtherIdle

\* The player's selection (the request body of /api/verify-chord, the
\* selectedNotes of the game pages)
SelectNotes ==
    /\ pc = "idle"
    /\ \E u \in UserLists : userNotes' = u
    /\ pc' = "selected"
    /\ UNCHANGED <<op, difficulty, chords, created, rootNum, pattern, noteStrings,
                   targetNotes, hasTargetChord, targetChord, result>>
    /\ ConversionIdle
    /\ OtherIdle

\* Note strings in the order of their pitch classes
RECURSIVE SortedByNumeric(_)
SortedByNumeric(list) ==
    IF Len(list) = 0 THEN <<>>
    ELSE LET i == CHOOSE k \in DOMAIN list :
                    \A j \in DOMAIN list : noteToNumeric(list[k]) <= noteToNumeric(list[j])
         IN  <<list[i]>> \o SortedByNumeric(SubSeq(list, 1, i - 1)
                                             \o SubSeq(list, i + 1, Len(list)))

\* The call with its arguments sorted in place rather than in copies
VerifyChordSortingInPlace ==
    /\ pc = "selected"
    /\ \E t \in TargetLists :
        /\ targetNotes' = SortedByNumeric(t)
        /\ result' = checkChordMatch(userNotes, t, FALSE, NoChord)
    /\ userNotes' = SortedByNumeric(userNotes)
    /\ pc' = "returned" /\ op' = "checkChordMatch"
    /\ UNCHANGED <<difficulty, chords, created, rootNum, pattern, noteStrings,
                   hasTargetChord, targetChord>>
    /\ ConversionIdle
    /\ OtherIdle

\* POST /api/verify-chord: checkChordMatch(userNotes, targetNotes)
VerifyChord ==
    /\ pc = "selected"
    /\ \E t \in TargetLists :
        /\ targetNotes' = t
        /\ result' = checkChordMatch(userNotes, t, FALSE, NoChord)
    /\ pc' = "returned" /\ op' = "checkChordMatch"
    /\ UNCHANGED <<difficulty, chords, created, rootNum, pattern, noteStrings,
                   userNotes, hasTargetChord, targetChord>>
    /\ ConversionIdle
    /\ OtherIdle

\* checkChordMatch(userNotes, targetNotes, c) for an instance c built from a
\* pattern with an inversion; targetNotes is c.notes or a shorter list
CallCheckChordMatchBuilt ==
    /\ pc = "selected"
    /\ \E c \in BuiltTargets :
        \E t \in {c.notes, <<<<"C", "4">>, <<"E", "4">>>>} :
            /\ targetChord' = c
            /\ targetNotes' = t
            /\ result' = checkChordMatch(userNotes, t, TRUE, c)
    /\ hasTargetChord' = TRUE
    /\ pc' = "returned" /\ op' = "checkChordMatch"
    /\ UNCHANGED <<difficulty, chords, created, rootNum, pattern, noteStrings, userNotes>>
    /\ ConversionIdle
    /\ OtherIdle

GC_CallCheckChordMatch ==
    /\ pc = "selected"
    /\ \E t \in TargetLists :
        /\ targetNotes' = t
        /\ result' = GC_checkChordMatch(userNotes, t, FALSE, NoChord)
    /\ pc' = "returned" /\ op' = "GC_checkChordMatch"
    /\ UNCHANGED <<difficulty, chords, created, rootNum, pattern, noteStrings,
                   userNotes, hasTargetChord, targetChord>>
    /\ ConversionIdle
    /\ OtherIdle

\* handleSubmit of the game pages: checkChordMatch(selectedNotes, currentChord.notes)
Lib_CallCheckChordMatch ==
    /\ pc = "selected"
    /\ \E t \in TargetLists :
        /\ targetNotes' = t
        /\ result' = Lib_checkChordMatch(userNotes, t)
    /\ pc' = "returned" /\ op' = "Lib_checkChordMatch"
    /\ UNCHANGED <<difficulty, chords, created, rootNum, pattern, noteStrings,
                   userNotes, hasTargetChord, targetChord>>
    /\ ConversionIdle
    /\ OtherIdle

\* checkChordMatch(userNotes, c.notes, c) for an instance c of the list that
\* getChordsForDifficulty has just returned
CallCheckChordMatchGenerated ==
    /\ pc = "returned" /\ op = "getChordsForDifficulty"
    /\ \E i \in DOMAIN chords :
        \E u \in Lists(UserPool, 1) \cup {chords[i].notes} :
            /\ targetChord' = chords[i]
            /\ userNotes' = u
            /\ targetNotes' = chords[i].notes
            /\ result' = checkChordMatch(u, chords[i].notes, TRUE, chords[i])
    /\ hasTargetChord' = TRUE
    /\ op' = "checkChordMatch"
    /\ chords' = <<>>
    /\ UNCHANGED <<pc, difficulty, created, rootNum, pattern, noteStrings>>
    /\ ConversionIdle
    /\ OtherIdle

GC_CallCheckChordMatchGenerated ==
    /\ pc = "returned" /\ op = "GC_getChordsForDifficulty"
    /\ \E i \in DOMAIN chords :
        \E u \in Lists(UserPool, 1) \cup {chords[i].notes} :
            /\ targetChord' = chords[i]
            /\ userNotes' = u
            /\ targetNotes' = chords[i].notes
            /\ result' = GC_checkChordMatch(u, chords[i].notes, TRUE, chords[i])
    /\ hasTargetChord' = TRUE
    /\ op' = "GC_checkChordMatch"
    /\ chords' = <<>>
    /\ UNCHANGED <<pc, difficulty, created, rootNum, pattern, noteStrings>>
    /\ ConversionIdle
    /\ OtherIdle

\* calculateChordNotes(rootNum, intervals) of the server and of GameControls
\* (the two copies are the same text)
CallCalculateChordNotes ==
    /\ pc = "idle"
    /\ \E root \in Roots, interval \in Intervals :
        /\ rootNum' = root
        /\ intervalsArg' = <<interval>>
        /\ calculated' = calculateChordNotes(root, <<interval>>)
    /\ pc' = "returned" /\ op' = "calculateChordNotes"
    /\ difficulty' = "none" /\ chords' = <<>> /\ created' = NoChord
    /\ pattern' = NoPattern /\ noteStrings' = <<>>
    /\ MatcherIdle
    /\ LookupIdle /\ ImportIdle /\ MidiIdle
    /\ OtherIdle

\* calculateChordNotes(rootNum, pattern) of part_003, on the patterns of its
\* catalog and on patterns of one interval
P3_CallCalculateChordNotes ==
    /\ pc = "idle"
    /\ \E root \in Roots,
          p \in Range(P3_chordPatterns)
                    \cup {IntervalPattern(<<interval>>) : interval \in Intervals} :
        /\ rootNum' = root
        /\ pattern' = p
        /\ intervalsArg' = p.intervals
        /\ calculated' = P3_calculateChordNotes(root, p)
    /\ pc' = "returned" /\ op' = "P3_calculateChordNotes"
    /\ difficulty' = "none" /\ chords' = <<>> /\ created' = NoChord
    /\ noteStrings' = <<>>
    /\ MatcherIdle
    /\ LookupIdle /\ ImportIdle /\ MidiIdle
    /\ OtherIdle

\* The catalog with its pattern of index j taken out
Without(catalog, j) ==
    [i \in 1..(Len(catalog) - 1) |-> IF i < j THEN catalog[i] ELSE catalog[i + 1]]

\* getChordsForDifficulty of GameControls over a catalog that lacks one of
\* its patterns
GC_CallGetChordsForDifficultyWithout ==
    /\ pc = "idle"
    /\ \E tier \in Tiers, j \in DOMAIN GC_chordPatterns :
        /\ difficulty' = tier
        /\ absent' = j
        /\ chords' = GC_getChordsForDifficultyOver(Without(GC_chordPatterns, j), tier)
    /\ pc' = "returned" /\ op' = "GC_getChordsForDifficultyWithout"
    /\ GeneratorIdle /\ MatcherIdle /\ ConversionIdle /\ DegreeIdle /\ CatalogKept /\ ClientKept

\* The scale degrees of the catalogs
CatalogDegrees ==
    {<<"1">>, <<"2">>, <<"3">>, <<"b", "3">>, <<"4">>, <<"5">>, <<"b", "5">>,
     <<"#", "5">>, <<"b", "7">>, <<"7">>, <<"b", "b", "7">>}

\* checkChordMatch, step 1: the expected note of one scale degree,
\* semitonesToNote(scaleDegreeToSemitones(scaleDegree), rootNote)
CallExpectedNote ==
    /\ pc = "idle"
    /\ \E root \in Roots, degree \in CatalogDegrees :
        /\ rootNum' = root
        /\ scaleDegreeArg' = degree
        /\ semitonesOut' = scaleDegreeToSemitones(degree)
        /\ noteOut' = semitonesToNote(scaleDegreeToSemitones(degree), root)
    /\ pc' = "returned" /\ op' = "expectedNote"
    /\ difficulty' = "none" /\ chords' = <<>> /\ created' = NoChord
    /\ pattern' = NoPattern /\ noteStrings' = <<>>
    /\ MatcherIdle /\ ConversionIdle /\ CatalogWhole /\ CatalogKept /\ ClientKept

\* The caller takes the result; the functions keep no state between calls
Return ==
    /\ pc = "returned"
    /\ pc' = "idle" /\ op' = "none"
    /\ difficulty' = "none" /\ chords' = <<>>
    /\ GeneratorIdle /\ MatcherIdle
    /\ ConversionIdle
    /\ OtherIdle

Next ==
    \/ CallGetChordsForDifficulty
    \/ GC_CallGetChordsForDifficulty
    \/ CallGenerateNoteStrings
    \/ GC_CallGenerateNoteStrings
    \/ CallCreateChordDefinition
    \/ GC_CallCreateChordDefinition
    \/ SelectNotes
    \/ VerifyChord
    \/ CallCheckChordMatchBuilt
    \/ GC_CallCheckChordMatch
    \/ Lib_CallCheckChordMatch
    \/ CallCheckChordMatchGenerated
    \/ GC_CallCheckChordMatchGenerated
    \/ CallCalculateChordNotes
    \/ P3_CallCalculateChordNotes
    \/ CallFind
    \/ GC_CallFind
    \/ P3_CallFind
    \/ CallGetAllChords
    \/ GC_CallGetAllChords
    \/ CallMidiNoteToNoteName
    \/ GC_CallGetChordsForDifficultyWithout
    \/ CallExpectedNote
    \/ Return

Spec == Init /\ [][Next]_vars

-----------------------------------------------------------------------------
(* src/client/src/hooks/use-piano.ts: the selection *)

\* The updater toggleNoteSelection hands to setSelectedNotes
toggleNoteSelection(prev, noteId) ==
    IF noteId \in Range(prev) THEN SelectSeq(prev, LAMBDA n : n # noteId)
    ELSE Append(prev, noteId)

\* A note-on message that adds its note whether or not it is selected
noteOnAlways(prev, midiNote) ==
    Append(prev, midiNoteToNoteName(midiNote))

\* The updater a note-on message hands to setSelectedNotes
noteOn(prev, midiNote) ==
    LET noteName == midiNoteToNoteName(midiNote)
    IN  IF noteName \notin Range(prev) THEN Append(prev, noteName) ELSE prev

-----------------------------------------------------------------------------
(* src/client/src/pages/new-game.tsx, src/client/src/pages/game.tsx *)

\* What an index is when it was read from beyond an array: undefined
UndefinedIndex == -1

\* At most MaxSubmissions correct answers are followed
MaxSubmissions == 8

\* At most MaxPending generateNewChord timers wait at once
MaxPending == 2

\* String.prototype.includes
Includes(s, sub) ==
    \E i \in 0..(Len(s) - Len(sub)) : SubSeq(s, i + 1, i + Len(sub)) = sub

\* slice(0, n)
SliceFromStart(s, n) ==
    IF n <= 0 THEN <<>> ELSE SubSeq(s, 1, IF n < Len(s) THEN n ELSE Len(s))

\* The chord type generateNewChord extracts from a chord's name
chordTypeOfName(name) ==
    IF Includes(name, <<"a", "u", "g">>) THEN "augmented"
    ELSE IF Includes(name, <<"d", "i", "m">>) THEN "diminished"
    ELSE IF Includes(name, <<"s", "u", "s">>) THEN "suspended"
    ELSE IF Includes(name, <<"m", " ">>) THEN "minor"
    ELSE "major"

\* The list a page fetches from /api/chords/level1: the difficulty both pages
\* start with, as either copy of getChordsForDifficulty builds it
PageDifficulty == "level1"

FetchedLists ==
    {getChordsForDifficulty(PageDifficulty), GC_getChordsForDifficulty(PageDifficulty)}

\* currentChord, NoChord standing for undefined
currentChordOf(list, index) ==
    IF Len(list) > 0 /\ index \in 0..(Len(list) - 1) THEN list[index + 1] ELSE NoChord

currentChord == currentChordOf(gameChords, currentChordIndex)

\* new-game.tsx: cooldownLength
cooldownLength(tier) == IF tier = "level1" THEN 6 ELSE 10

\* new-game.tsx: validChordIndices, the indices not in the recent history
validChordIndices(list, recent) ==
    SelectSeq([i \in 1..Len(list) |-> i - 1], LAMBDA i : i \notin Range(recent))

\* new-game.tsx: filteredIndices
filteredIndices(list, recent, types) ==
    LET valid == validChordIndices(list, recent)
        filtered ==
            IF Len(types) >= 2 /\ types[1] = types[2]
            THEN SelectSeq(valid, LAMBDA idx : chordTypeOfName(list[idx + 1].name) # types[1])
            ELSE valid
    IN  IF Len(filtered) = 0 THEN valid ELSE filtered

\* new-game.tsx: the values filteredIndices[randomIndex] can take;
\* Math.floor(Math.random() * 0) is 0 and reads beyond the empty array
NewChordIndices(list, recent, types) ==
    LET filtered == filteredIndices(list, recent, types)
    IN  IF Len(filtered) = 0 THEN {UndefinedIndex} ELSE Range(filtered)

\* game.tsx: avoidCount
avoidCount(tier, list) ==
    LET half == Len(list) \div 2
    IN  IF tier = "level1" THEN (IF 6 < half THEN 6 ELSE half)
        ELSE (IF 10 < half THEN 10 ELSE half)

\* game.tsx: chordOk of a drawn index
chordOk(list, recent, types, newIndex) ==
    LET indexIsOk == newIndex \notin Range(recent)
        chordType == chordTypeOfName(list[newIndex + 1].name)
        typeIsOk == ~(Len(types) >= 2 /\ types[1] = chordType /\ types[2] = chordType)
    IN  indexIsOk /\ typeIsOk

\* game.tsx: the values newIndex can have when the do-while loop ends. The
\* loop ends on the first draw when the list is no longer than avoidCount, on
\* a draw that is chordOk, or on its thirtieth draw, whatever it is.
Game_NewIndices(tier, list, recent, types) ==
    LET drawn == 0..(Len(list) - 1)
        ok == {i \in drawn : chordOk(list, recent, types, i)}
    IN  IF Len(list) > avoidCount(tier, list) THEN ok \cup (drawn \ ok) ELSE drawn

\* The page mounts, its query returns a list and the effect draws an index
MountPage ==
    /\ page = "none"
    /\ \E version \in {"new-game", "game"}, list \in FetchedLists :
        /\ page' = version
        /\ gameChords' = list
        /\ IF Len(list) > 0
           THEN \E randomIndex \in 0..(Len(list) - 1) : currentChordIndex' = randomIndex
           ELSE UNCHANGED currentChordIndex
    /\ pianoEvent' = "none"
    /\ UNCHANGED <<recentChordIndices, recentChordTypes, score, timers, selectedNotes>>
    /\ UNCHANGED <<engineVars, storageVars>>

\* The player clicks, from an empty selection, the keys of the chord on display
ClickChordKeys ==
    /\ page # "none"
    /\ selectedNotes = <<>>
    /\ currentChord # NoChord
    /\ LET keys == currentChord.notes
           Clicked[i \in 0..Len(keys)] ==
               IF i = 0 THEN selectedNotes
               ELSE toggleNoteSelection(Clicked[i - 1], keys[i])
       IN  selectedNotes' = Clicked[Len(keys)]
    /\ pianoEvent' = "toggle"
    /\ UNCHANGED <<pageVars, engineVars, storageVars>>

\* handleSubmit: it reads the chord on display and the selection, whether or
\* not a generateNewChord is pending
HandleSubmit ==
    /\ page # "none"
    /\ score < 10 * MaxSubmissions
    /\ Len(timers) < MaxPending
    /\ IF currentChord = NoChord THEN UNCHANGED <<score, timers>>
       ELSE LET correct ==
                    Lib_checkChordMatch(selectedNotes, currentChord.notes) = "true"
            IN  IF correct
                THEN /\ score' = score + 10
                     /\ timers' = Append(timers,
                            [recentChordIndices |-> recentChordIndices,
                             recentChordTypes |-> recentChordTypes])
                ELSE UNCHANGED <<score, timers>>
    /\ UNCHANGED <<page, gameChords, currentChordIndex, recentChordIndices,
                   recentChordTypes>>
    /\ UNCHANGED <<pianoVars, engineVars, storageVars>>

\* A 1500 ms timer fires: generateNewChord runs with the recent history of the
\* render that started the timer, its setters with the latest state
GenerateNewChord ==
    /\ page # "none"
    /\ timers # <<>>
    /\ timers' = Tail(timers)
    /\ LET closure == Head(timers)
           tier == PageDifficulty
           keep == IF page = "new-game" THEN cooldownLength(tier)
                   ELSE avoidCount(tier, gameChords)
           choices ==
               IF page = "new-game"
               THEN NewChordIndices(gameChords, closure.recentChordIndices,
                                    closure.recentChordTypes)
               ELSE Game_NewIndices(tier, gameChords, closure.recentChordIndices,
                                    closure.recentChordTypes)
       IN  IF Len(gameChords) = 0
           THEN UNCHANGED <<currentChordIndex, recentChordIndices, recentChordTypes,
                            selectedNotes>>
           ELSE \E newChordIndex \in choices :
                   LET newChord == currentChordOf(gameChords, newChordIndex)
                   IN  /\ recentChordIndices' =
                            <<newChordIndex>> \o SliceFromStart(recentChordIndices, keep - 1)
                       /\ recentChordTypes' =
                            IF newChord # NoChord
                            THEN <<chordTypeOfName(newChord.name)>>
                                     \o SliceFromStart(recentChordTypes, 2)
                            ELSE recentChordTypes
                       /\ currentChordIndex' = newChordIndex
                       /\ selectedNotes' = <<>>
    /\ pianoEvent' = "clear"
    /\ UNCHANGED <<page, gameChords, score>>
    /\ UNCHANGED <<engineVars, storageVars>>

GameNext ==
    \/ MountPage
    \/ ClickChordKeys
    \/ HandleSubmit
    \/ GenerateNewChord

GameSpec == Init /\ [][GameNext]_vars

-----------------------------------------------------------------------------
(* src/server/storage.ts: MemStorage *)

\* createUser is followed up to MaxUsers users
MaxUsers == 1

\* createGameSession is followed up to MaxSessions sessions
MaxSessions == 2

\* The scores the calls are given
Scores == {-10, 10, 20}

\* The limit getTopScores has when it is called without one
defaultLimit == 10

SetMax(S) == CHOOSE x \in S : \A y \in S : y <= x

\* updateUserHighScore that stores the score it is given
updateUserHighScoreAlways(map, userId, newScore) ==
    IF userId \in DOMAIN map
    THEN [map EXCEPT ![userId].highScore = newScore]
    ELSE map

\* The users map after updateUserHighScore(userId, newScore)
updateUserHighScore(map, userId, newScore) ==
    IF userId \in DOMAIN map /\ newScore > map[userId].highScore
    THEN [map EXCEPT ![userId].highScore = newScore]
    ELSE map

\* The history of the scores given for the users that exist
Submit(history, map, userId, newScore) ==
    IF userId \in DOMAIN map
    THEN [history EXCEPT ![userId] = @ \cup {newScore}]
    ELSE history

\* The sessions map after createGameSession; an absent score is stored as 0
createGameSession(sessions, id, hasScore, newScore) ==
    Append(sessions, [id |-> id, score |-> IF hasScore THEN newScore ELSE 0])

\* Array.prototype.sort((a, b) => b.score - a.score): stable
RECURSIVE SortByScoreDescending(_)
SortByScoreDescending(list) ==
    IF list = <<>> THEN <<>>
    ELSE LET n == Len(list)
             front == SortByScoreDescending(SubSeq(list, 1, n - 1))
             last == list[n]
             ahead == SelectSeq(front, LAMBDA s : s.score >= last.score)
             behind == SelectSeq(front, LAMBDA s : s.score < last.score)
         IN  ahead \o <<last>> \o behind

\* getTopScores that slices the sessions in the order they were created
getTopScoresUnsorted(sessions, limit) ==
    SliceFromStart(sessions, limit)

\* What getTopScores(limit) returns, limit >= 0
getTopScores(sessions, limit) ==
    SliceFromStart(SortByScoreDescending(sessions), limit)

TopScoresIdle ==
    /\ limitArg' = -1 /\ topScores' = <<>>

CreateUser ==
    /\ userIdCounter <= MaxUsers
    /\ LET id == userIdCounter
       IN  /\ userIdCounter' = userIdCounter + 1
           /\ users' = Append(users, [id |-> id, highScore |-> 0])
           /\ submitted' = Append(submitted, {})
    /\ storageCall' = [name |-> "createUser", known |-> FALSE]
    /\ TopScoresIdle
    /\ UNCHANGED <<gameSessions, sessionIdCounter>>
    /\ UNCHANGED <<engineVars, pageVars, pianoVars>>

UpdateUserHighScore ==
    /\ \E userId \in 1..(MaxUsers + 1), newScore \in Scores :
        /\ users' = updateUserHighScore(users, userId, newScore)
        /\ submitted' = Submit(submitted, users, userId, newScore)
        /\ storageCall' = [name |-> "updateUserHighScore", known |-> userId \in DOMAIN users]
    /\ TopScoresIdle
    /\ UNCHANGED <<userIdCounter, gameSessions, sessionIdCounter>>
    /\ UNCHANGED <<engineVars, pageVars, pianoVars>>

CreateGameSession ==
    /\ sessionIdCounter <= MaxSessions
    /\ \E hasScore \in BOOLEAN, newScore \in Scores :
        gameSessions' = createGameSession(gameSessions, sessionIdCounter, hasScore, newScore)
    /\ sessionIdCounter' = sessionIdCounter + 1
    /\ storageCall' = [name |-> "createGameSession", known |-> FALSE]
    /\ TopScoresIdle
    /\ UNCHANGED <<users, userIdCounter, submitted>>
    /\ UNCHANGED <<engineVars, pageVars, pianoVars>>

\* POST /api/game-sessions; userId 0 stands for a body without userId
PostGameSession ==
    /\ sessionIdCounter <= MaxSessions
    /\ \E userId \in 0..(MaxUsers + 1), newScore \in Scores :
        /\ gameSessions' = createGameSession(gameSessions, sessionIdCounter, TRUE, newScore)
        /\ IF userId # 0
           THEN /\ users' = updateUserHighScore(users, userId, newScore)
                /\ submitted' = Submit(submitted, users, userId, newScore)
           ELSE UNCHANGED <<users, submitted>>
        /\ storageCall' = [name |-> "postGameSession", known |-> userId \in DOMAIN users]
    /\ sessionIdCounter' = sessionIdCounter + 1
    /\ TopScoresIdle
    /\ UNCHANGED userIdCounter
    /\ UNCHANGED <<engineVars, pageVars, pianoVars>>

GetTopScores ==
    /\ \E limit \in 0..(MaxSessions + 1) \cup {defaultLimit} :
        /\ limitArg' = limit
        /\ topScores' = getTopScores(gameSessions, limit)
    /\ storageCall' = [name |-> "getTopScores", known |-> FALSE]
    /\ UNCHANGED <<users, userIdCounter, gameSessions, sessionIdCounter, submitted>>
    /\ UNCHANGED <<engineVars, pageVars, pianoVars>>

StorageNext ==
    \/ CreateUser
    \/ UpdateUserHighScore
    \/ CreateGameSession
    \/ PostGameSession
    \/ GetTopScores

StorageSpec == Init /\ [][StorageNext]_vars

-----------------------------------------------------------------------------
(* src/client/src/hooks/use-piano.ts, src/client/src/components/Piano.tsx: *)
(* the events that change the selection *)

\* The keys played are the MaxKeys keys from middle C upwards
MaxKeys == 4

\* 60 is the MIDI number of C4, a key of the Piano component (C3 to B5)
MidiKeys == 60..(60 + MaxKeys - 1)

\* The status bytes of the messages: note off, note on, control change,
\* program change
MidiCommands == {128, 144, 176, 192}

\* The velocities of the messages
Velocities == {0, 64}

\* A click on a key of the Piano component
ToggleNoteSelection ==
    /\ \E key \in MidiKeys :
        selectedNotes' = toggleNoteSelection(selectedNotes, midiNoteToNoteName(key))
    /\ pianoEvent' = "toggle"
    /\ UNCHANGED <<engineVars, pageVars, storageVars>>

\* A click on Clear
ClearSelectedNotes ==
    /\ selectedNotes' = <<>>
    /\ pianoEvent' = "clear"
    /\ UNCHANGED <<engineVars, pageVars, storageVars>>

\* A MIDI message reaches the hook's handler
OnMIDIMessage ==
    /\ \E command \in MidiCommands, key \in MidiKeys, velocity \in Velocities :
        IF command >= 176 /\ command <= 191
        THEN /\ pianoEvent' = "ignored"
             /\ UNCHANGED selectedNotes
        ELSE IF command = 144 /\ velocity > 0
        THEN /\ pianoEvent' = "noteOn"
             /\ selectedNotes' = noteOn(selectedNotes, key)
        ELSE IF command = 128 \/ (command = 144 /\ velocity = 0)
        THEN /\ pianoEvent' = "noteOff"
             /\ UNCHANGED selectedNotes
        ELSE /\ pianoEvent' = "ignored"
             /\ UNCHANGED selectedNotes
    /\ UNCHANGED <<engineVars, pageVars, storageVars>>

\* A MIDI message reaches the Piano component's handler, which clicks the key
\* of a note-on and does nothing else
Piano_HandleMIDIMessage ==
    /\ \E command \in MidiCommands, key \in MidiKeys, velocity \in Velocities :
        IF command = 144 /\ velocity > 0
        THEN /\ pianoEvent' = "toggle"
             /\ selectedNotes' = toggleNoteSelection(selectedNotes, midiNoteToNoteName(key))
        ELSE /\ pianoEvent' = IF command = 128 \/ command = 144 THEN "noteOff" ELSE "ignored"
             /\ UNCHANGED selectedNotes
    /\ UNCHANGED <<engineVars, pageVars, storageVars>>

PianoNext ==
    \/ ToggleNoteSelection
    \/ ClearSelectedNotes
    \/ OnMIDIMessage
    \/ Piano_HandleMIDIMessage

PianoSpec == Init /\ [][PianoNext]_vars

-----------------------------------------------------------------------------
(* Properties *)

C4E4G4 == <<<<"C", "4">>, <<"E", "4">>, <<"G", "4">>>>

E4G4C5 == <<<<"E", "4">>, <<"G", "4">>, <<"C", "5">>>>

G4C5E5 == <<<<"G", "4">>, <<"C", "5">>, <<"E", "5">>>>

Returned(name) == pc = "returned" /\ op = name

\* A call of the server's matcher or of the GameControls matcher has returned
MatcherReturned == Returned("checkChordMatch") \/ Returned("GC_checkChordMatch")

\* The notes of the target: those of the chord instance when one was passed
TargetChordNotes == IF hasTargetChord THEN targetChord.notes ELSE targetNotes

SamePitchClasses(a, b) == SortNumbers(PitchClasses(a)) = SortNumbers(PitchClasses(b))

\* Pitch class of the lowest note of a non-empty list (octave first, then pitch class)
LowestPitchClass(notes) ==
    SortByPitch([i \in DOMAIN notes |-> NoteWithOctave(notes[i])])[1].note

\* The chord member whose scale degree is stored at position 0 of the instance
BassMember(tc) ==
    semitonesToNote(scaleDegreeToSemitones(tc.scaleDegrees[1]), tc.rootNote)

\* C1: every instance c that getChordsForDifficulty returns matches itself:
\* checkChordMatch(c.notes, c.notes, c) returns true.
C1_Reflexivity ==
    (/\ Returned("checkChordMatch")
     /\ hasTargetChord
     /\ difficulty \in Tiers
     /\ userNotes = targetChord.notes
     /\ targetNotes = targetChord.notes)
    => result = "true"

\* The major triad on C of level7 is matched against its own notes and the call throws.
C1_SelfMatchThrows ==
    /\ Returned("checkChordMatch")
    /\ hasTargetChord
    /\ difficulty = "level7"
    /\ targetChord.id = 1
    /\ targetChord.rootNote = 1
    /\ userNotes = targetChord.notes
    /\ targetNotes = targetChord.notes
    /\ result = "TypeError"

\* C2: against a target instance of inversion k > 0, when the user's notes hold
\* exactly the chord's pitch classes, checkChordMatch returns true exactly when
\* the user's lowest note is the chord member assigned to position 0.
C2_BassRule ==
    (/\ Returned("checkChordMatch")
     /\ hasTargetChord
     /\ targetChord.hasInversion
     /\ targetChord.inversion > 0
     /\ SamePitchClasses(userNotes, targetChord.notes))
    => (result = "true" <=> LowestPitchClass(userNotes) = BassMember(targetChord))

\* [E4,G4,C5] is refused by the first-inversion C-major instance, whose
\* position 0 holds the third.
C2_ThirdInBassRefused ==
    /\ Returned("checkChordMatch")
    /\ hasTargetChord
    /\ targetChord.rootNote = 1
    /\ targetChord.hasInversion /\ targetChord.inversion = 1
    /\ targetChord.scaleDegrees = <<<<"3">>, <<"5">>, <<"1">>>>
    /\ userNotes = E4G4C5
    /\ result = "false"

\* C3: user notes with the target's pitch-class multiset but a lowest note of
\* another pitch class than the target's lowest note never match.
C3_InversionSensitivity ==
    (/\ MatcherReturned
     /\ Len(userNotes) > 0
     /\ Len(TargetChordNotes) > 0
     /\ SamePitchClasses(userNotes, TargetChordNotes)
     /\ LowestPitchClass(userNotes) # LowestPitchClass(TargetChordNotes))
    => result = "false"

\* The server accepts [C4,E4,G4] for the first-inversion target [E4,G4,C5].
C3_RootPositionAcceptedForInversion ==
    /\ Returned("checkChordMatch")
    /\ ~hasTargetChord
    /\ userNotes = C4E4G4
    /\ targetNotes = E4G4C5
    /\ result = "true"

\* C4: checkChordMatch returns true only if the multiset of the pitch classes
\* of the user's notes equals that of the target chord's notes.
C4_PitchClassMultiset ==
    (MatcherReturned /\ result = "true") => SamePitchClasses(userNotes, TargetChordNotes)

\* A match on the scale-degree path by notes that are not the instance's own list.
C4_Witness ==
    /\ Returned("checkChordMatch")
    /\ hasTargetChord
    /\ result = "true"
    /\ Len(userNotes) = 3
    /\ userNotes # targetChord.notes

\* C5: without targetChord the matcher still refuses user notes whose lowest
\* note has another pitch class than the target's lowest note.
C5_FallbackBassRule ==
    (/\ Returned("checkChordMatch") \/ Returned("Lib_checkChordMatch")
     /\ ~hasTargetChord
     /\ Len(userNotes) > 0
     /\ Len(targetNotes) > 0
     /\ LowestPitchClass(userNotes) # LowestPitchClass(targetNotes))
    => result = "false"

\* The game pages' matcher accepts [G4,C5,E5] for the target [C4,E4,G4].
C5_LibIgnoresBass ==
    /\ Returned("Lib_checkChordMatch")
    /\ userNotes = G4C5E5
    /\ targetNotes = C4E4G4
    /\ result = "true"

\* C6: a user list holding a string that noteToNumeric maps to 0 never matches.
C6_InvalidInputNeverMatches ==
    (/\ MatcherReturned
     /\ \E i \in DOMAIN userNotes : noteToNumeric(userNotes[i]) = 0)
    => result = "false"

\* [H4,E4,G4] matches the target [X4,E4,G4]: both unknown names become 0.
C6_UnknownMatchesUnknown ==
    /\ Returned("checkChordMatch")
    /\ ~hasTargetChord
    /\ userNotes = <<<<"H", "4">>, <<"E", "4">>, <<"G", "4">>>>
    /\ targetNotes = <<<<"X", "4">>, <<"E", "4">>, <<"G", "4">>>>
    /\ result = "true"

\* C7: when the user's and the target's note lists differ in length,
\* checkChordMatch returns false, with or without targetChord.
C7_CountMismatch ==
    (MatcherReturned /\ Len(userNotes) # Len(targetNotes)) => result = "false"

\* One user note against a generated instance, whose note list is empty: the
\* call throws instead of returning false.
C7_MismatchThrows ==
    /\ Returned("checkChordMatch")
    /\ hasTargetChord
    /\ difficulty \in Tiers
    /\ Len(userNotes) = 1
    /\ targetNotes = targetChord.notes
    /\ Len(targetNotes) = 0
    /\ result = "TypeError"

\* C8: checkChordMatch returns a boolean for every input.
C8_Total ==
    MatcherReturned => result \in {"true", "false"}

\* The GameControls matcher throws on two empty lists.
C8_EmptyListsThrow ==
    /\ Returned("GC_checkChordMatch")
    /\ userNotes = <<>>
    /\ targetNotes = <<>>
    /\ result = "TypeError"

WellFormedInstance(c, size) ==
    /\ Len(c.notes) = size
    /\ Len(c.noteNumbers) = size
    /\ Len(c.scaleDegrees) = size
    /\ \A i \in DOMAIN c.notes :
        i \in DOMAIN c.noteNumbers /\ c.noteNumbers[i] = noteToNumeric(c.notes[i])

TierChordSize(tier) == IF tier \in {"level8", "level9"} THEN 4 ELSE 3

\* C9: every instance built by createChordDefinition or returned by
\* getChordsForDifficulty has notes, noteNumbers and scaleDegrees of the chord's
\* size, and noteNumbers[i] is the pitch class of notes[i].
C9_InstanceInvariant ==
    /\ (Returned("createChordDefinition") \/ Returned("GC_createChordDefinition"))
        => WellFormedInstance(created, Len(pattern.intervals))
    /\ (Returned("getChordsForDifficulty") \/ Returned("GC_getChordsForDifficulty"))
        => \A i \in DOMAIN chords : WellFormedInstance(chords[i], TierChordSize(difficulty))

\* level7 of the server returns instances with no notes and three scale degrees.
C9_EmptyNotes ==
    /\ Returned("getChordsForDifficulty")
    /\ difficulty = "level7"
    /\ Len(chords) = 72
    /\ \A i \in DOMAIN chords :
        /\ chords[i].notes = <<>>
        /\ chords[i].noteNumbers = <<>>
        /\ chords[i].scaleDegrees = <<Undefined, Undefined, Undefined>>

\* C10: for every pattern of the catalog, root and position i,
\* noteToNumeric(generateNoteStrings(root, pattern)[i]) is
\* calculateChordNotes(root, pattern.intervals)[i].
C10_RoundTrip ==
    (Returned("generateNoteStrings") \/ Returned("GC_generateNoteStrings"))
    => \A i \in DOMAIN pattern.intervals :
        /\ i \in DOMAIN noteStrings
        /\ noteToNumeric(noteStrings[i])
            = calculateChordNotes(rootNum, pattern.intervals)[i]

\* The server's generateNoteStrings returns no note for a pattern of its catalog.
C10_NoNotes ==
    /\ Returned("generateNoteStrings")
    /\ rootNum = 1
    /\ pattern.type = "major"
    /\ noteStrings = <<>>

\* C11: for every root in 1..12 and every interval in -12..24, each value
\* returned by calculateChordNotes lies in 1..12.
C11_PitchClassRange ==
    (Returned("calculateChordNotes") \/ Returned("P3_calculateChordNotes"))
    => \A i \in DOMAIN calculated : calculated[i] \in 1..12

\* calculateChordNotes(1, [-12]) of the server and GameControls returns [-11].
C11_NegativeNote ==
    /\ Returned("calculateChordNotes")
    /\ rootNum = 1
    /\ intervalsArg = <<-12>>
    /\ calculated = <<-11>>

\* The catalog a lookup searched
SearchedCatalog ==
    CASE op = "find" -> chordPatterns
      [] op = "GC_find" -> GC_chordPatterns
      [] op = "P3_find" -> P3_chordPatterns
      [] OTHER -> <<>>

\* (type, inversion) is a pair the tier rules use
DeclaredPair(type, k) ==
    \/ type \in triadTypes /\ k \in 0..2
    \/ type \in seventhTypes /\ k \in 0..3

\* The catalog holds exactly one pattern of the pair, and find returned it
ExactlyOne(catalog, type, k) ==
    /\ Cardinality({i \in DOMAIN catalog :
                        catalog[i].type = type /\ InversionIs(catalog[i], k)}) = 1
    /\ pattern # NoPattern
    /\ pattern.type = type
    /\ InversionIs(pattern, k)

\* C12: the catalog holds exactly one pattern for each (type, inversion) pair
\* of the tier rules: inversions 0..2 of the six triad types and 0..3 of the
\* nine 7th-chord types.
C12_CatalogCompleteness ==
    ((Returned("find") \/ Returned("GC_find") \/ Returned("P3_find"))
     /\ DeclaredPair(typeArg, inversionArg))
    => ExactlyOne(SearchedCatalog, typeArg, inversionArg)

\* The server's catalog holds no pattern of type major and inversion 0.
C12_NoRootPositionMajor ==
    /\ Returned("find")
    /\ typeArg = "major"
    /\ inversionArg = 0
    /\ pattern = NoPattern

\* The names of the six chords of level1: C, F, G, Am, Dm, Em
Level1Names ==
    {<<"C">>, <<"F">>, <<"G">>, <<"A", "m">>, <<"D", "m">>, <<"E", "m">>}

\* list holds n instances, no two of the same root, name and inversion, each
\* with an inversion in 0..maxInversion
DistinctInstances(list, n, maxInversion) ==
    /\ Len(list) = n
    /\ Cardinality({<<list[i].rootNote, list[i].name, list[i].inversion>> :
                        i \in DOMAIN list}) = n
    /\ \A i \in DOMAIN list :
        /\ list[i].rootNote \in 1..12
        /\ list[i].hasInversion
        /\ list[i].inversion \in 0..maxInversion

\* What the tier rules of level1, level7 and level8 declare
TierTotal(tier, list) ==
    /\ tier = "level1" =>
        /\ DistinctInstances(list, 6, 0)
        /\ {list[i].name : i \in DOMAIN list} = Level1Names
    /\ tier = "level7" => DistinctInstances(list, 216, 2)
    /\ tier = "level8" => DistinctInstances(list, 96, 3)

\* C13: getChordsForDifficulty returns one instance for every combination its
\* tier rule declares: the 6 root-position chords C, F, G, Am, Dm, Em for
\* level1, 12 x 6 x 3 = 216 instances for level7, 6 x 4 x 4 = 96 for level8.
C13_TierTotal ==
    (Returned("getChordsForDifficulty") \/ Returned("GC_getChordsForDifficulty"))
    => TierTotal(difficulty, chords)

\* The server's getChordsForDifficulty("level1") returns the empty list.
C13_Level1Empty ==
    /\ Returned("getChordsForDifficulty")
    /\ difficulty = "level1"
    /\ chords = <<>>

\* The nine tiers, in order
NineTiers ==
    <<"level1", "level2", "level3", "level4", "level5",
      "level6", "level7", "level8", "level9">>

\* C14: getAllChords() returns the concatenation, in tier order, of
\* getChordsForDifficulty(t) for every tier t from level1 to level9.
C14_AllTiers ==
    /\ Returned("getAllChords")
        => chords = Concat([i \in DOMAIN NineTiers |->
                                getChordsForDifficulty(NineTiers[i])])
    /\ Returned("GC_getAllChords")
        => chords = Concat([i \in DOMAIN NineTiers |->
                                GC_getChordsForDifficulty(NineTiers[i])])

\* Iterating over the five levels of src/shared/schema.ts, the server's
\* getAllChords returns no chord, while level7 alone holds 72.
C14_FiveLevelsOnly ==
    /\ Returned("getAllChords")
    /\ imported = Schema_difficultyLevels
    /\ chords = <<>>
    /\ Len(getChordsForDifficulty("level7")) = 72

\* C15: for every MIDI note number m in 0..127 the string made by
\* midiNoteToNoteName is the name of index m mod 12 of the table starting at C
\* followed by the octave floor(m / 12) - 1, and noteToNumeric reads it back
\* as pitch class (m mod 12) + 1.
C15_MidiTranslation ==
    Returned("midiNoteToNoteName")
    => /\ midiName = Midi_noteNames[(midiArg % 12) + 1]
                        \o IntegerText((midiArg \div 12) - 1)
       /\ noteToNumeric(midiName) = (midiArg % 12) + 1

\* MIDI note 0 becomes "C-1", which noteToNumeric reads as 0.
C15_OctaveMinusOne ==
    /\ Returned("midiNoteToNoteName")
    /\ midiArg = 0
    /\ midiName = <<"C", "-", "1">>
    /\ noteToNumeric(midiName) = 0

\* Absolute pitch of a note string: twelve per octave, then the pitch class
AbsolutePitch(noteStr) ==
    LET parsed == NoteWithOctave(noteStr)
    IN  12 * parsed.octave + parsed.note

\* One note per interval, the first in octave 4, pitch never decreasing, and
\* so the first note the lowest
Ascending(list, size) ==
    /\ Len(list) = size
    /\ size > 0 => NoteWithOctave(list[1]).octave = 4
    /\ \A i \in 1..(Len(list) - 1) : AbsolutePitch(list[i]) <= AbsolutePitch(list[i + 1])
    /\ \A i \in DOMAIN list : AbsolutePitch(list[1]) <= AbsolutePitch(list[i])

\* C16: for every root and catalog pattern, generateNoteStrings puts the first
\* note in octave 4 and no later note below its predecessor in absolute pitch,
\* so the first note is the lowest of the instance.
C16_AscendingVoicing ==
    (Returned("generateNoteStrings") \/ Returned("GC_generateNoteStrings"))
    => Ascending(noteStrings, Len(pattern.intervals))

\* generateNoteStrings of GameControls voices A major in root position as
\* A4, C#5, E4: the last note lies below the first.
C16_FifthBelowRoot ==
    /\ Returned("GC_generateNoteStrings")
    /\ rootNum = 10
    /\ pattern.type = "major"
    /\ pattern.inversion = 0
    /\ noteStrings = <<<<"A", "4">>, <<"C", "#", "5">>, <<"E", "4">>>>
    /\ AbsolutePitch(noteStrings[3]) < AbsolutePitch(noteStrings[1])

\* The root-position pattern of the type of p in the catalog
RootPositionOf(catalog, p) == FindPattern(catalog, p.type, 0)[1]

\* notes are the pitch classes of base in another order, beginning with member k
TrueInversion(notes, base, k) ==
    /\ Range(notes) = Range(base)
    /\ notes[1] = base[k + 1]

\* C17: for every root and every catalog pattern of type T and inversion k > 0,
\* the pitch classes computed from the pattern's intervals are those of the
\* root-position pattern of T on that root, and the first is member k of the
\* root-position chord (third, fifth, seventh for k = 1, 2, 3).
C17_TrueInversions ==
    /\ (Returned("GC_createChordDefinition") /\ pattern.inversion > 0)
        => TrueInversion(created.noteNumbers,
                         calculateChordNotes(rootNum,
                            RootPositionOf(GC_chordPatterns, pattern).intervals),
                         pattern.inversion)
    /\ (Returned("P3_calculateChordNotes") /\ pattern.inversion > 0)
        => TrueInversion(calculated,
                         P3_calculateChordNotes(rootNum,
                            RootPositionOf(P3_chordPatterns, pattern)),
                         pattern.inversion)

\* On root C the first inversion of major in GameControls is C, Eb, Ab.
C17_FirstInversionOnC ==
    /\ Returned("GC_createChordDefinition")
    /\ rootNum = 1
    /\ pattern.type = "major"
    /\ pattern.inversion = 1
    /\ created.noteNumbers = <<1, 4, 9>>
    /\ calculateChordNotes(1, <<0, 4, 7>>) = <<1, 5, 8>>

\* Every scale degree of c, read from the root of c, is the pitch class that
\* c holds at the same position
SelfConsistent(c) ==
    /\ DOMAIN c.scaleDegrees = DOMAIN c.noteNumbers
    /\ \A i \in DOMAIN c.scaleDegrees :
        /\ ~scaleDegreeToSemitonesThrows(c.scaleDegrees[i])
        /\ semitonesToNote(scaleDegreeToSemitones(c.scaleDegrees[i]), c.rootNote)
            = c.noteNumbers[i]

\* C18: for every generated instance and position i,
\* semitonesToNote(scaleDegreeToSemitones(scaleDegrees[i]), rootNote) is
\* noteNumbers[i].
C18_SelfConsistency ==
    /\ (Returned("createChordDefinition") /\ pattern \in Range(chordPatterns))
        => SelfConsistent(created)
    /\ Returned("GC_createChordDefinition") => SelfConsistent(created)
    /\ (Returned("getChordsForDifficulty") \/ Returned("GC_getChordsForDifficulty"))
        => \A i \in DOMAIN chords : SelfConsistent(chords[i])

\* The GameControls instance of root C, major, first inversion holds the pitch
\* classes C, Eb, Ab and the degrees 3, 5, 1, which read from C are E, G, C.
C18_DegreesOfAnotherChord ==
    /\ Returned("GC_createChordDefinition")
    /\ created.rootNote = 1
    /\ created.noteNumbers = <<1, 4, 9>>
    /\ created.scaleDegrees = <<<<"3">>, <<"5">>, <<"1">>>>
    /\ semitonesToNote(scaleDegreeToSemitones(created.scaleDegrees[1]), 1) = 5

\* The scale degrees of the catalog's pattern of the given type, in interval order
RootPositionDegrees(type) ==
    LET rp == chordPatterns[CHOOSE j \in DOMAIN chordPatterns :
                                chordPatterns[j].type = type]
    IN  [j \in DOMAIN rp.intervals |-> rp.scaleDegreeMap[rp.intervals[j]]]

OtherTargetNotes(tc) ==
    {<<>>, tc.notes, G4C5E5, <<<<"X", "4">>, <<"E", "4">>, <<"G", "4">>>>}

\* C20: when a targetChord with scaleDegrees is passed, the result of
\* checkChordMatch depends on userNotes and targetChord only: the same call
\* with any other targetNotes returns the same result.
C20_TargetNotesIrrelevant ==
    (Returned("checkChordMatch") /\ hasTargetChord)
    => \A t \in OtherTargetNotes(targetChord) :
        checkChordMatch(userNotes, t, TRUE, targetChord) = result

\* C, E, G is accepted for C major although targetNotes holds only C4 and E4.
C20_Witness ==
    /\ Returned("checkChordMatch")
    /\ hasTargetChord
    /\ userNotes = C4E4G4
    /\ targetChord.notes = C4E4G4
    /\ targetNotes = <<<<"C", "4">>, <<"E", "4">>>>
    /\ result = "true"

\* C21: when the catalog lacks a (type, inversion) pair that a tier rule
\* names, getChordsForDifficulty returns the instances of the other
\* combinations, in order and numbered from 1, and nothing is raised; a tier
\* that does not name the pair returns the list it returns over the whole
\* catalog.
C21_MissingSkipped ==
    Returned("GC_getChordsForDifficultyWithout")
    => LET whole == TierEntries(GC_chordPatterns, difficulty)
           gone == GC_chordPatterns[absent]
           kept == SelectSeq(whole, LAMBDA e : e.pattern # gone)
       IN  /\ chords = [i \in DOMAIN kept |->
                            GC_createChordDefinition(kept[i].root, kept[i].pattern,
                                                     i, difficulty)]
           /\ kept = whole => chords = GC_getChordsForDifficulty(difficulty)

\* Without the root-position major pattern level1 returns Am, Dm and Em.
C21_Witness ==
    /\ Returned("GC_getChordsForDifficultyWithout")
    /\ difficulty = "level1"
    /\ GC_chordPatterns[absent].type = "major"
    /\ GC_chordPatterns[absent].inversion = 0
    /\ Len(chords) = 3
    /\ [i \in 1..3 |-> chords[i].name] = <<<<"A", "m">>, <<"D", "m">>, <<"E", "m">>>>

\* Semitones of the degrees 1..7 of the major scale
MajorScaleOffset(number) ==
    CASE number = "1" -> 0 [] number = "2" -> 2 [] number = "3" -> 4
      [] number = "4" -> 5 [] number = "5" -> 7 [] number = "6" -> 9
      [] number = "7" -> 11

\* C22: for every root in 1..12 and every scale degree of the catalog,
\* scaleDegreeToSemitones returns the major-scale offset of the degree number
\* minus the flats plus the sharps, reduced into 0..11, and semitonesToNote
\* returns ((root - 1 + offset) mod 12) + 1, a value of 1..12.
C22_ExpectedPitchClass ==
    Returned("expectedNote")
    => LET d == scaleDegreeArg
           flats == Cardinality({i \in DOMAIN d : d[i] = "b"})
           sharps == Cardinality({i \in DOMAIN d : d[i] = "#"})
           offset == (MajorScaleOffset(d[Len(d)]) - flats + sharps) % 12
       IN  /\ semitonesOut = offset
           /\ semitonesOut \in 0..11
           /\ noteOut = ((rootNum - 1 + offset) % 12) + 1
           /\ noteOut \in 1..12

\* From root C the degree 7 lies 11 semitones up, on B: 12, not 0.
C22_Witness ==
    /\ Returned("expectedNote")
    /\ rootNum = 1
    /\ scaleDegreeArg = <<"7">>
    /\ semitonesOut = 11
    /\ noteOut = 12

\* The standard root-position intervals of the 15 chord types
StandardIntervals(type) ==
    CASE type = "major" -> <<0, 4, 7>>
      [] type = "minor" -> <<0, 3, 7>>
      [] type = "augmented" -> <<0, 4, 8>>
      [] type = "diminished" -> <<0, 3, 6>>
      [] type = "sus2" -> <<0, 2, 7>>
      [] type = "sus4" -> <<0, 5, 7>>
      [] type = "dominant7" -> <<0, 4, 7, 10>>
      [] type = "major7" -> <<0, 4, 7, 11>>
      [] type = "minor7" -> <<0, 3, 7, 10>>
      [] type = "minorMajor7" -> <<0, 3, 7, 11>>
      [] type = "diminished7" -> <<0, 3, 6, 9>>
      [] type = "halfdiminished7" -> <<0, 3, 6, 10>>
      [] type = "diminishedMajor7" -> <<0, 3, 6, 11>>
      [] type = "augmentedMinor7" -> <<0, 4, 8, 10>>
      [] type = "augmentedMajor7" -> <<0, 4, 8, 11>>
      [] OTHER -> <<>>

\* C23: for each of the 15 chord types the root-position pattern of the catalog
\* has the standard intervals.  In GameControls it is the pattern that the
\* lookup of inversion 0 finds; the server's catalog holds one pattern per
\* type, written without an inversion, and it is that pattern.
C23_RootPositionIntervals ==
    /\ (Returned("GC_find") /\ inversionArg = 0)
        => pattern.intervals = StandardIntervals(typeArg)
    /\ Returned("generateNoteStrings")
        => /\ pattern.type \in triadTypes \cup seventhTypes
           /\ pattern.intervals = StandardIntervals(pattern.type)
           /\ Cardinality({i \in DOMAIN chordPatterns :
                                chordPatterns[i].type = pattern.type}) = 1

\* The lookup of (halfdiminished7, 0) in GameControls finds 0-3-6-10.
C23_Witness ==
    /\ Returned("GC_find")
    /\ typeArg = "halfdiminished7"
    /\ inversionArg = 0
    /\ pattern.intervals = <<0, 3, 6, 10>>

\* A step that is a call of the server's checkChordMatch
CheckChordMatchStep == pc # "idle" /\ op # "checkChordMatch" /\ op' = "checkChordMatch"

\* A step that is a call of the server's getChordsForDifficulty
GetChordsStep == pc = "idle" /\ op' = "getChordsForDifficulty"

C25_ChordOnDisplay ==
    (page # "none" /\ Len(gameChords) > 0)
        => currentChordIndex \in 0..(Len(gameChords) - 1)

\* new-game.tsx, level1: the seventh generateNewChord finds all six chords in
\* the recent history and sets currentChordIndex to undefined
C25_NoChordOnDisplay ==
    /\ page = "new-game" /\ Len(gameChords) = 6
    /\ score = 70 /\ timers = <<>>
    /\ Len(recentChordIndices) = 6
    /\ currentChordIndex = UndefinedIndex
    /\ currentChord = NoChord

\* C26: a chord on display is credited at most once: while a generateNewChord
\* started by a correct submission is pending, no step adds to the score.
C26_CreditedOnce ==
    [][timers # <<>> => score' = score]_vars

\* Two submissions of the first chord, before any generateNewChord has run,
\* have each added 10 points and started a timer
C26_CreditedTwice ==
    /\ page # "none"
    /\ score = 20 /\ Len(timers) = 2
    /\ recentChordIndices = <<>>
    /\ Lib_checkChordMatch(selectedNotes, currentChord.notes) = "true"

\* C27: in the list getAllChords() returns no two chord instances have the
\* same id.
C27_UniqueIds ==
    (Returned("getAllChords") \/ Returned("GC_getAllChords"))
        => \A i, j \in DOMAIN chords : chords[i].id = chords[j].id => i = j

\* The first chord of level1 and the first chord of level2 both have id 1
C27_SharedId ==
    /\ Returned("GC_getAllChords")
    /\ Len(chords) > 6
    /\ chords[1].id = 1 /\ chords[1].difficulty = "level1"
    /\ chords[7].id = 1 /\ chords[7].difficulty = "level2"

\* C28: through any sequence of createUser and updateUserHighScore calls (the
\* latter also made by POST /api/game-sessions) every user stays, no highScore
\* decreases, each highScore is the maximum of 0 and the scores submitted for
\* its user, and a call for an unknown user id leaves the users as they were.
C28_HighScoreMonotonic ==
    [][ /\ \A id \in DOMAIN users :
            /\ id \in DOMAIN users'
            /\ users'[id].highScore >= users[id].highScore
        /\ \A id \in DOMAIN users' :
            users'[id].highScore = SetMax({0} \cup submitted'[id])
        /\ (storageCall'.name = "updateUserHighScore" /\ ~storageCall'.known)
            => users' = users ]_vars

\* The user has been given -10, 10 and 20 and holds 20; the last call named a
\* user id that does not exist
C28_Witness ==
    /\ Len(users) = 1
    /\ submitted[1] = {-10, 10, 20} /\ users[1].highScore = 20
    /\ storageCall = [name |-> "updateUserHighScore", known |-> FALSE]

\* C29: sessions get fresh, strictly increasing ids, and getTopScores(limit),
\* limit >= 0, returns min(limit, number of sessions) of them in non-increasing
\* score order, no session left out scoring higher than a session returned.
C29_TopScores ==
    /\ \A i \in DOMAIN gameSessions :
        /\ gameSessions[i].id < sessionIdCounter
        /\ \A j \in DOMAIN gameSessions : i < j => gameSessions[i].id < gameSessions[j].id
    /\ storageCall.name = "getTopScores" =>
        LET returned == {topScores[i].id : i \in DOMAIN topScores}
            smaller == IF limitArg < Len(gameSessions) THEN limitArg ELSE Len(gameSessions)
        IN  /\ limitArg >= 0
            /\ Len(topScores) = smaller
            /\ Cardinality(returned) = smaller
            /\ \A i \in DOMAIN topScores : topScores[i] \in Range(gameSessions)
            /\ \A i, j \in DOMAIN topScores :
                i < j => topScores[i].score >= topScores[j].score
            /\ \A s \in Range(gameSessions) :
                s.id \notin returned
                    => \A i \in DOMAIN topScores : s.score <= topScores[i].score

\* Of the sessions scoring 10 and 20, the top one is the second
C29_Witness ==
    /\ storageCall.name = "getTopScores"
    /\ limitArg = 1
    /\ gameSessions = <<[id |-> 1, score |-> 10], [id |-> 2, score |-> 20]>>
    /\ topScores = <<[id |-> 2, score |-> 20]>>

\* C30: through any interleaving of key toggles, MIDI note-on and note-off
\* messages and clears, selectedNotes holds no note string twice, a note-off
\* leaves every selected note selected and a clear leaves none.
C30_NoDuplicates ==
    [][ /\ \A i, j \in DOMAIN selectedNotes' :
            selectedNotes'[i] = selectedNotes'[j] => i = j
        /\ pianoEvent' = "noteOff" => selectedNotes' = selectedNotes
        /\ pianoEvent' = "clear" => selectedNotes' = <<>> ]_vars

\* A note-on has been handled; D4 and C4 are selected, in the order played
C30_Witness ==
    /\ pianoEvent = "noteOn"
    /\ selectedNotes = <<<<"D", "4">>, <<"C", "4">>>>

-----------------------------------------------------------------------------
(* The same properties of the GameControls copy alone, whose catalog holds *)
(* the inversions.                                                         *)

\* Every instance of every tier matches itself.
GC_Reflexivity ==
    (/\ Returned("GC_checkChordMatch")
     /\ hasTargetChord
     /\ userNotes = targetChord.notes)
    => result = "true"

\* Equal pitch classes over another lowest note never match.
GC_InversionSensitivity ==
    (/\ Returned("GC_checkChordMatch")
     /\ Len(userNotes) > 0
     /\ Len(targetNotes) > 0
     /\ SamePitchClasses(userNotes, targetNotes)
     /\ LowestPitchClass(userNotes) # LowestPitchClass(targetNotes))
    => result = "false"

\* Lists of different lengths never match.
GC_CountMismatch ==
    (Returned("GC_checkChordMatch") /\ Len(userNotes) # Len(targetNotes))
    => result = "false"

\* Instances are well formed.
GC_InstanceInvariant ==
    /\ Returned("GC_createChordDefinition")
        => WellFormedInstance(created, Len(pattern.intervals))
    /\ Returned("GC_getChordsForDifficulty")
        => \A i \in DOMAIN chords : WellFormedInstance(chords[i], TierChordSize(difficulty))

\* Note strings read back as the pitch classes they were made from.
GC_RoundTrip ==
    Returned("GC_generateNoteStrings")
    => \A i \in DOMAIN pattern.intervals :
        /\ i \in DOMAIN noteStrings
        /\ noteToNumeric(noteStrings[i])
            = calculateChordNotes(rootNum, pattern.intervals)[i]

\* The part_003 copy of calculateChordNotes stays within 1..12.
P3_PitchClassRange ==
    Returned("P3_calculateChordNotes")
    => \A i \in DOMAIN calculated : calculated[i] \in 1..12

\* The GameControls catalog holds exactly one pattern of every declared pair.
GC_CatalogCompleteness ==
    (Returned("GC_find") /\ DeclaredPair(typeArg, inversionArg))
    => ExactlyOne(GC_chordPatterns, typeArg, inversionArg)

\* The part_003 catalog holds one pattern of every declared pair but the
\* inversions of sus2 and sus4.
P3_CatalogCompleteness ==
    (/\ Returned("P3_find")
     /\ DeclaredPair(typeArg, inversionArg)
     /\ ~(typeArg \in {"sus2", "sus4"} /\ inversionArg > 0))
    => ExactlyOne(P3_chordPatterns, typeArg, inversionArg)

\* The tiers of GameControls are complete.
GC_TierTotal ==
    Returned("GC_getChordsForDifficulty") => TierTotal(difficulty, chords)

\* Over the nine levels of the later declaration, getAllChords is the
\* concatenation of the nine tiers.
NineLevels_AllTiers ==
    imported = difficultyLevels => C14_AllTiers

\* From MIDI note 12 upwards the string reads back as its pitch class.
Midi_RoundTripFromOctaveZero ==
    (Returned("midiNoteToNoteName") /\ midiArg >= 12)
    => noteToNumeric(midiName) = (midiArg % 12) + 1

\* The voicings of GameControls hold one note per interval and start in octave 4.
GC_FirstNoteInOctaveFour ==
    Returned("GC_generateNoteStrings")
    => /\ Len(noteStrings) = Len(pattern.intervals)
       /\ NoteWithOctave(noteStrings[1]).octave = 4

\* An inverted pattern of GameControls yields the pitch classes of its type on
\* the root that lies below the first note by the interval of member k; the
\* third inversion of minorMajor7, whose last interval is 9 for 8, does not.
GC_InversionOfLowerRoot ==
    (/\ Returned("GC_createChordDefinition")
     /\ pattern.inversion > 0
     /\ ~(pattern.type = "minorMajor7" /\ pattern.inversion = 3))
    => LET rootPosition == RootPositionOf(GC_chordPatterns, pattern).intervals
           k == pattern.inversion
           trueRoot == Normalise(rootNum - rootPosition[k + 1], 1)
       IN  TrueInversion(created.noteNumbers,
                         calculateChordNotes(trueRoot, rootPosition), k)

\* The root-position instances of GameControls are self-consistent.
GC_RootPositionSelfConsistency ==
    /\ (Returned("GC_createChordDefinition") /\ pattern.inversion = 0)
        => SelfConsistent(created)
    /\ Returned("GC_getChordsForDifficulty")
        => \A i \in DOMAIN chords :
            chords[i].inversion = 0 => SelfConsistent(chords[i])


\* game.tsx draws its index from the whole list: a chord is always on display
Game_ChordOnDisplay ==
    (page = "game" /\ Len(gameChords) > 0)
        => currentChordIndex \in 0..(Len(gameChords) - 1)

\* The server's catalog yields chords in level7 alone: their ids do not collide
Server_UniqueIds ==
    Returned("getAllChords")
        => \A i, j \in DOMAIN chords : chords[i].id = chords[j].id => i = j

=========================================================================
